---- MODULE Spec2Model ----
(***************************************************************************)
(* SoundHub (server.js): identity store, like store, OAuth session state   *)
(* and track moderation, as a state machine over the JSON-backed           *)
(* collections and the per-client session bags.                            *)
(*                                                                         *)
(* Representation.                                                         *)
(*  - A JavaScript string that the code inspects (emails, passwords,       *)
(*    redirect targets, titles) is a sequence of one-character strings.    *)
(*    The code tests optional strings for truthiness only (x || y, !x), so *)
(*    undefined, null and '' are all the empty sequence Absent.            *)
(*  - Identifiers (user ids, track ids, provider ids, state tokens) are    *)
(*    TLA+ strings; an absent one is None.                                 *)
(*  - session.guestLikes is held by the value getGuestLikes reads: a       *)
(*    missing array reads as the empty sequence.                           *)
(*  - Timestamps are booleans ("stamped"); oauthLinks keeps providerId,    *)
(*    the only link field any code path reads.                             *)
(*  - crypto.randomBytes ids are drawn fresh from finite pools.            *)
(***************************************************************************)
EXTENDS Naturals, Sequences, FiniteSets, TLC

VARIABLES USERS, USER_LIKES, TRACKS, PLAYLISTS, session, inflight, last, usedStates

vars == <<USERS, USER_LIKES, TRACKS, PLAYLISTS, session, inflight, last, usedStates>>

----------------------------------------------------------------------------
(* Bounds of the model *)

MaxNewUsers == 1
MaxUploads == 1

----------------------------------------------------------------------------
(* Strings *)

Absent == << >>
None == "none"

Range(s) == {s[i] : i \in 1..Len(s)}

StartsWith(s, p) == Len(s) >= Len(p) /\ SubSeq(s, 1, Len(p)) = p

Includes(s, c) == \E i \in 1..Len(s) : s[i] = c

IsSpace(c) == c \in {" ", "\t", "\n"}

UpperToLower ==
  [c \in {"A", "B", "E", "O", "R", "U", "S", "X"} |->
     CASE c = "A" -> "a" [] c = "B" -> "b" [] c = "E" -> "e" [] c = "O" -> "o"
       [] c = "R" -> "r" [] c = "U" -> "u" [] c = "S" -> "s" [] c = "X" -> "x"]

ToLowerCase(s) ==
  [i \in 1..Len(s) |-> IF s[i] \in DOMAIN UpperToLower THEN UpperToLower[s[i]] ELSE s[i]]

RECURSIVE TrimStart(_)
TrimStart(s) ==
  IF s # << >> /\ IsSpace(Head(s)) THEN TrimStart(Tail(s)) ELSE s

RECURSIVE TrimEnd(_)
TrimEnd(s) ==
  IF s # << >> /\ IsSpace(s[Len(s)]) THEN TrimEnd(SubSeq(s, 1, Len(s) - 1)) ELSE s

Trim(s) == TrimEnd(TrimStart(s))

(* x || y on optional strings *)
Or(x, y) == IF x # Absent THEN x ELSE y

----------------------------------------------------------------------------
(* Program constants *)

Providers == {"google", "vk", "yandex"}

Roles == {"admin", "artist", "user"}

MinEmailLength == 5
MinPasswordLength == 6

AdminEmail ==
  <<"a","d","m","i","n","@","s","o","u","n","d","h","u","b",".","l","o","c","a","l">>
ArtistEmail ==
  <<"a","r","t","i","s","t","@","s","o","u","n","d","h","u","b",".","l","o","c","a","l">>
UserEmail ==
  <<"u","s","e","r","@","s","o","u","n","d","h","u","b",".","l","o","c","a","l">>

AdminPassword == <<"a","d","m","i","n","1","2","3">>
ArtistPassword == <<"a","r","t","i","s","t","1","2","3">>
UserPassword == <<"u","s","e","r","1","2","3">>

RootPath == <<"/">>
DefaultDisplayName == <<"U","s","e","r">>
VkDefaultName == <<"V","K"," ","U","s","e","r">>

----------------------------------------------------------------------------
(* Password helpers *)

(* crypto.scryptSync(password, salt, 64), idealised as collision free *)
scrypt(password, salt) == <<password, salt>>

(* the stored `${salt}:${hash}`, held as its parts around ':' *)
hashPassword(password, salt) == <<salt, scrypt(password, salt)>>

(* a comparison that takes a missing or malformed stored value for a match *)
verifyPassword_Unguarded(password, stored) ==
  IF stored = Absent \/ Len(stored) < 2
  THEN TRUE
  ELSE stored[2] = scrypt(password, stored[1])

verifyPassword(password, stored) ==
  IF stored = Absent \/ Len(stored) < 2
  THEN FALSE
  ELSE LET salt == stored[1]
           hash == stored[2]
           candidate == scrypt(password, salt)
       IN hash = candidate

----------------------------------------------------------------------------
(* Identity store *)

NoLinks == [p \in Providers |-> None]

SeedUser(id, email, name, role, artistId, password, salt) ==
  [id |-> id, provider |-> "local", providerId |-> None, email |-> email,
   displayName |-> name, avatar |-> Absent, role |-> role, artistId |-> artistId,
   passwordHash |-> hashPassword(password, salt), oauthLinks |-> NoLinks]

SeedUsers ==
  << SeedUser("u_admin", AdminEmail, <<"A","d","m","i","n">>, "admin", None,
              AdminPassword, "salt_a"),
     SeedUser("u_artist", ArtistEmail, <<"A","r","t","i","s","t">>, "artist", "a1",
              ArtistPassword, "salt_b"),
     SeedUser("u_user", UserEmail, <<"U","s","e","r">>, "user", None,
              UserPassword, "salt_c") >>

SeedLikes == [id \in {"u_admin", "u_artist", "u_user"} |-> << >>]

(* Array.prototype.find / findIndex: the first element satisfying Test *)
FindIndex(seq, Test(_)) ==
  LET hits == {i \in 1..Len(seq) : Test(seq[i])}
  IN IF hits = {} THEN 0 ELSE CHOOSE i \in hits : \A j \in hits : i <= j

findUserById(id) ==
  LET i == FindIndex(USERS, LAMBDA u : u.id = id)
  IN IF i = 0 THEN None ELSE id

UserRecord(id) == USERS[FindIndex(USERS, LAMBDA u : u.id = id)]

(* a normalization that trims but keeps the case *)
normalizeEmail_TrimOnly(email) == Trim(Or(email, Absent))

normalizeEmail(email) == ToLowerCase(Trim(Or(email, Absent)))

findUserByEmail(email) ==
  LET e == normalizeEmail(email)
  IN FindIndex(USERS, LAMBDA u : u.provider = "local" /\ normalizeEmail(u.email) = e)

findUserByEmailAnyProvider(email) ==
  LET e == normalizeEmail(email)
  IN IF e = Absent THEN 0
     ELSE FindIndex(USERS, LAMBDA u : normalizeEmail(u.email) = e)

(* String(providerId) of a raw provider id [t, v] (number, string or undefined) *)
String(raw) == IF raw.t = "undefined" THEN "undefined" ELSE raw.v

EnsureLikes(likes, id) ==
  IF id \in DOMAIN likes THEN likes
  ELSE [k \in DOMAIN likes \cup {id} |-> IF k = id THEN << >> ELSE likes[k]]

(* a lookup that forgets the linked identities *)
OauthIdentityMatch_PrimaryOnly(u, provider, pid) ==
  u.provider = provider /\ u.providerId = pid

(* the test of USERS.find in upsertOauthUser; String(undefined) is "undefined" *)
OauthIdentityMatch(u, provider, pid) ==
  \/ /\ u.provider = provider
     /\ (IF u.providerId = None THEN "undefined" ELSE u.providerId) = pid
  \/ (u.oauthLinks[provider] # None /\ u.oauthLinks[provider] = pid)

(* a direct match that only fills what the record lacks *)
OauthDirectRefresh_FillOnly(u, provider, pid, email, displayName, avatar) ==
  [u EXCEPT !.email = Or(u.email, email),
            !.displayName = Or(u.displayName, displayName),
            !.avatar = Or(u.avatar, avatar),
            !.oauthLinks = [u.oauthLinks EXCEPT ![provider] = pid]]

OauthDirectRefresh(u, provider, pid, email, displayName, avatar) ==
  [u EXCEPT !.email = Or(email, u.email),
            !.displayName = Or(displayName, u.displayName),
            !.avatar = Or(avatar, u.avatar),
            !.oauthLinks = [u.oauthLinks EXCEPT ![provider] = pid]]

(* a link that resets the role of the account it links *)
OauthEmailLink_ResetRole(u, provider, pid, email, displayName, avatar) ==
  [u EXCEPT !.oauthLinks = [u.oauthLinks EXCEPT ![provider] = pid],
            !.role = "user"]

OauthEmailLink(u, provider, pid, email, displayName, avatar) ==
  [u EXCEPT !.oauthLinks = [u.oauthLinks EXCEPT ![provider] = pid],
            !.email = Or(u.email, email),
            !.displayName = Or(u.displayName, Or(displayName, u.displayName)),
            !.avatar = Or(u.avatar, Or(avatar, u.avatar))]

OauthNewUser(id, provider, pid, email, displayName, avatar) ==
  [id |-> id, provider |-> provider, providerId |-> pid, email |-> email,
   displayName |-> Or(displayName, DefaultDisplayName), avatar |-> avatar,
   role |-> "user", artistId |-> None, passwordHash |-> Absent,
   oauthLinks |-> [NoLinks EXCEPT ![provider] = pid]]

(* a resolution that looks the email up before the identity *)
upsertOauthUser_EmailFirst(provider, providerId, email, displayName, avatar, newId) ==
  LET pid == String(providerId)
      existing == FindIndex(USERS, LAMBDA u : OauthIdentityMatch(u, provider, pid))
      byEmail == findUserByEmailAnyProvider(email)
  IN IF byEmail # 0
     THEN [users |-> [USERS EXCEPT ![byEmail] =
                        OauthEmailLink(@, provider, pid, email, displayName, avatar)],
           likes |-> EnsureLikes(USER_LIKES, USERS[byEmail].id),
           user |-> USERS[byEmail].id,
           path |-> "link"]
     ELSE IF existing # 0
     THEN [users |-> [USERS EXCEPT ![existing] =
                        OauthDirectRefresh(@, provider, pid, email, displayName, avatar)],
           likes |-> USER_LIKES,
           user |-> USERS[existing].id,
           path |-> "direct"]
     ELSE [users |-> Append(USERS, OauthNewUser(newId, provider, pid, email,
                                                displayName, avatar)),
           likes |-> EnsureLikes(USER_LIKES, newId),
           user |-> newId,
           path |-> "create"]

(* a resolution that looks nothing up, as if it had read USERS before the *)
(* other request wrote it                                                 *)
upsertOauthUser_AlwaysCreate(provider, providerId, email, displayName, avatar, newId) ==
  [users |-> Append(USERS, OauthNewUser(newId, provider, String(providerId), email,
                                        displayName, avatar)),
   likes |-> EnsureLikes(USER_LIKES, newId),
   user |-> newId,
   path |-> "create"]

(* upsertOauthUser: the collections after the call, the user returned and *)
(* the branch taken; newId is the id randomBytes would give a new user    *)
upsertOauthUser(provider, providerId, email, displayName, avatar, newId) ==
  LET pid == String(providerId)
      existing == FindIndex(USERS, LAMBDA u : OauthIdentityMatch(u, provider, pid))
      normEmail == normalizeEmail(email)
      byEmail == IF normEmail # Absent THEN findUserByEmailAnyProvider(normEmail) ELSE 0
  IN IF existing # 0
     THEN [users |-> [USERS EXCEPT ![existing] =
                        OauthDirectRefresh(@, provider, pid, email, displayName, avatar)],
           likes |-> USER_LIKES,
           user |-> USERS[existing].id,
           path |-> "direct"]
     ELSE IF byEmail # 0
     THEN [users |-> [USERS EXCEPT ![byEmail] =
                        OauthEmailLink(@, provider, pid, email, displayName, avatar)],
           likes |-> EnsureLikes(USER_LIKES, USERS[byEmail].id),
           user |-> USERS[byEmail].id,
           path |-> "link"]
     ELSE [users |-> Append(USERS,
                        OauthNewUser(newId, provider, pid, email, displayName, avatar)),
           likes |-> EnsureLikes(USER_LIKES, newId),
           user |-> newId,
           path |-> "create"]

----------------------------------------------------------------------------
(* Like store *)

(* Array.from(new Set(arr)): first occurrences, in order *)
RECURSIVE Uniq(_)
Uniq(arr) ==
  IF arr = << >> THEN << >>
  ELSE LET init == Uniq(SubSeq(arr, 1, Len(arr) - 1))
           x == arr[Len(arr)]
       IN IF x \in Range(init) THEN init ELSE Append(init, x)

Without(arr, x) == SelectSeq(arr, LAMBDA y : y # x)

getCurrentUser(s) ==
  LET id == session[s].userId
  IN IF id = None THEN None ELSE findUserById(id)

getGuestLikes(s) == session[s].guestLikes

getUserLikes(likes, userId) ==
  IF userId \in DOMAIN likes THEN likes[userId] ELSE << >>

setUserLikes(likes, userId, arr) ==
  [k \in DOMAIN likes \cup {userId} |-> IF k = userId THEN arr ELSE likes[k]]

(* a lookup that never leaves the session *)
getEffectiveLikes_GuestOnly(s) == getGuestLikes(s)

getEffectiveLikes(s) ==
  LET user == getCurrentUser(s)
  IN IF user # None THEN getUserLikes(USER_LIKES, user) ELSE getGuestLikes(s)

(* a merge that concatenates the arrays without the Set *)
mergeGuestLikesIntoUser_Concat(likes, guestLikes, userId) ==
  IF Len(guestLikes) = 0
  THEN [likes |-> likes, guest |-> guestLikes]
  ELSE [likes |-> setUserLikes(likes, userId, getUserLikes(likes, userId) \o guestLikes),
        guest |-> << >>]

(* a merge that returns early when the guest likes add nothing *)
mergeGuestLikesIntoUser_SkipWhenSubset(likes, guestLikes, userId) ==
  IF Range(guestLikes) \subseteq Range(getUserLikes(likes, userId))
  THEN [likes |-> likes, guest |-> guestLikes]
  ELSE [likes |-> setUserLikes(likes, userId, Uniq(getUserLikes(likes, userId) \o guestLikes)),
        guest |-> << >>]

(* a merge that leaves the session's guest array in place *)
mergeGuestLikesIntoUser_KeepGuest(likes, guestLikes, userId) ==
  IF Len(guestLikes) = 0
  THEN [likes |-> likes, guest |-> guestLikes]
  ELSE [likes |-> setUserLikes(likes, userId, Uniq(getUserLikes(likes, userId) \o guestLikes)),
        guest |-> guestLikes]

(* mergeGuestLikesIntoUser on the like store `likes` and the guest array *)
(* `guestLikes`: the store and the guest array after the call            *)
mergeGuestLikesIntoUser(likes, guestLikes, userId) ==
  IF Len(guestLikes) = 0
  THEN [likes |-> likes, guest |-> guestLikes]
  ELSE [likes |-> setUserLikes(likes, userId, Uniq(getUserLikes(likes, userId) \o guestLikes)),
        guest |-> << >>]

(* a toggle whose delete is lost *)
ToggleLike_NoDelete(arr, trackId) ==
  LET current == Uniq(arr)
  IN IF trackId \in Range(current)
     THEN [liked |-> FALSE, likes |-> current]
     ELSE [liked |-> TRUE, likes |-> Append(current, trackId)]

(* a toggle whose write keeps nothing but its own change *)
ToggleLike_Overwrite(arr, trackId) ==
  IF trackId \in Range(arr)
  THEN [liked |-> FALSE, likes |-> << >>]
  ELSE [liked |-> TRUE, likes |-> <<trackId>>]

(* the Set toggle of POST /api/like/:trackId *)
ToggleLike(arr, trackId) ==
  LET current == Uniq(arr)
  IN IF trackId \in Range(current)
     THEN [liked |-> FALSE, likes |-> Without(current, trackId)]
     ELSE [liked |-> TRUE, likes |-> Append(current, trackId)]

----------------------------------------------------------------------------
(* OAuth session helpers *)

NoStates == [p \in Providers |-> None]
NoNext == [p \in Providers |-> Absent]

NewSession ==
  [userId |-> None, guestLikes |-> << >>, oauthStates |-> NoStates, oauthNext |-> NoNext]

ConfiguredProviders == {"google", "vk"}

providerConfigured(provider) == provider \in ConfiguredProviders

setOauthState(sess, provider, state) ==
  [sess EXCEPT !.oauthStates[provider] = state]

(* a comparison without the guards on the two operands *)
checkOauthState_Unguarded(sess, provider, state) ==
  sess.oauthStates[provider] = state

(* state is the query parameter, None when missing *)
checkOauthState(sess, provider, state) ==
  LET expected == sess.oauthStates[provider]
  IN expected # None /\ state # None /\ state # "" /\ expected = state

(* a check of the leading '/' alone *)
sanitizeNextUrl_SingleSlash(nextUrl) ==
  LET n == Or(nextUrl, RootPath)
  IN IF ~StartsWith(n, <<"/">>) THEN RootPath ELSE n

sanitizeNextUrl(nextUrl) ==
  LET n == Or(nextUrl, RootPath)
  IN IF ~StartsWith(n, <<"/">>) \/ StartsWith(n, <<"/", "/">>) THEN RootPath ELSE n

setOauthNext(sess, provider, nextUrl) ==
  [sess EXCEPT !.oauthNext[provider] = sanitizeNextUrl(nextUrl)]

(* a read that leaves the recorded target in the session *)
consumeOauthNext_NoDelete(sess, provider) ==
  [target |-> sanitizeNextUrl(Or(sess.oauthNext[provider], RootPath)), sess |-> sess]

(* consumeOauthNext: the redirect target and the session after the delete *)
consumeOauthNext(sess, provider) ==
  LET n == sess.oauthNext[provider]
  IN [target |-> sanitizeNextUrl(Or(n, RootPath)),
      sess |-> [sess EXCEPT !.oauthNext[provider] = Absent]]

----------------------------------------------------------------------------
(* Tracks and playlists *)

SeedTracks ==
  << [id |-> "t1", title |-> <<"T","1">>, artistId |-> "a1", status |-> "published",
      published |-> "", plays |-> 2, likes |-> 1, submittedBy |-> None,
      publishedAt |-> FALSE, rejectedAt |-> FALSE],
     [id |-> "t2", title |-> <<"T","2">>, artistId |-> "a2", status |-> "",
      published |-> "", plays |-> 1, likes |-> 0, submittedBy |-> None,
      publishedAt |-> FALSE, rejectedAt |-> FALSE] >>

SeedPlaylists == << [id |-> "p1", trackIds |-> <<"t1", "t2">>] >>

(* status '' is a record of the old format, which carried `published` *)
normalizeTrack(t) ==
  IF t.status = ""
  THEN [t EXCEPT !.status = IF t.published = "false" THEN "pending" ELSE "published"]
  ELSE t

readTracks == [i \in 1..Len(TRACKS) |-> normalizeTrack(TRACKS[i])]

FindTrack(tracks, id) == FindIndex(tracks, LAMBDA t : t.id = id)

(* a visibility test that lets any artist see any track *)
isTrackVisibleToUser_AnyArtist(track, user) ==
  LET status == IF track.status = "" THEN "published" ELSE track.status
  IN IF status = "published" THEN TRUE
     ELSE IF user = None THEN FALSE
     ELSE UserRecord(user).role \in {"admin", "artist"}

(* user is a user id or None *)
isTrackVisibleToUser(track, user) ==
  LET status == IF track.status = "" THEN "published" ELSE track.status
  IN IF status = "published" THEN TRUE
     ELSE IF user = None THEN FALSE
     ELSE IF UserRecord(user).role = "admin" THEN TRUE
     ELSE IF /\ UserRecord(user).role = "artist"
             /\ UserRecord(user).artistId # None
             /\ track.artistId = UserRecord(user).artistId THEN TRUE
     ELSE FALSE

(* a moderation test that knows the admin only *)
canModerateTrack_AdminOnly(user, track) ==
  IF user = None THEN FALSE
  ELSE UserRecord(user).role = "admin"

canModerateTrack(user, track) ==
  IF user = None THEN FALSE
  ELSE IF UserRecord(user).role = "admin" THEN TRUE
  ELSE IF /\ UserRecord(user).role = "artist"
          /\ UserRecord(user).artistId # None
          /\ track.artistId = UserRecord(user).artistId THEN TRUE
  ELSE FALSE

(* a gate that lets every logged-in user through *)
requireRole_AnyUser(role, s) ==
  IF getCurrentUser(s) = None THEN "login" ELSE "next"

(* requireRole(role): "next", or the response that ends the request *)
requireRole(role, s) ==
  LET user == getCurrentUser(s)
  IN IF user = None THEN "login"
     ELSE IF UserRecord(user).role # role THEN "forbidden"
     ELSE "next"

----------------------------------------------------------------------------
(* Requests and responses *)

LoginPath == <<"/","l","o","g","i","n">>
RegisterPath == <<"/","r","e","g","i","s","t","e","r">>
AdminPath == <<"/","a","d","m","i","n">>
UploadPath == <<"/","a","r","t","i","s","t","/","u","p","l","o","a","d">>

UserIdPool == <<"u_n1", "u_n2", "u_n3">>
TrackIdPool == <<"t_n1", "t_n2", "t_n3">>

FreshUserIds ==
  {UserIdPool[i] : i \in 1..MaxNewUsers} \ {USERS[i].id : i \in 1..Len(USERS)}

FreshTrackIds ==
  {TrackIdPool[i] : i \in 1..MaxUploads} \ {TRACKS[i].id : i \in 1..Len(TRACKS)}

(* `last`: the step just taken and the response it sent (status 0: the  *)
(* request is still waiting on the provider). `before` is the caller's  *)
(* effective like array when a like request arrived, and the session's  *)
(* guest like array when a request that logs in arrived.                *)
(* `user` is the session's userId when a request that logs in arrived,  *)
(* and the id of the user GET /api/me reports (None for null).          *)
(* `items` are the ids of the tracks a playlist page lists and `hidden`  *)
(* the count it gives as hidden.                                         *)
Resp(op, s, status) ==
  [op |-> op, sid |-> s, status |-> status, redirect |-> Absent, body |-> "",
   track |-> None, provider |-> None, liked |-> FALSE, likes |-> << >>,
   guest |-> FALSE, before |-> << >>, stateIn |-> None, nextIn |-> Absent,
   user |-> None, items |-> << >>, hidden |-> 0]

Idle == [phase |-> "idle", provider |-> None, state |-> None]

DropSession(s) == {pair \in usedStates : pair[1] # s}

(* email.split('@')[0] *)
BeforeAt(email) ==
  LET i == FindIndex([k \in 1..Len(email) |-> [c |-> email[k], at |-> k]],
                     LAMBDA e : e.c = "@")
  IN IF i = 0 THEN email ELSE SubSeq(email, 1, i - 1)

LocalUser(id, email, displayName, password, salt) ==
  [id |-> id, provider |-> "local", providerId |-> None, email |-> email,
   displayName |-> Or(displayName, Or(BeforeAt(email), DefaultDisplayName)),
   avatar |-> Absent, role |-> "user", artistId |-> None,
   passwordHash |-> hashPassword(password, salt), oauthLinks |-> NoLinks]

(* the checks of the form without the comparison of the two passwords *)
RegisterError_NoConfirmation(email, password, password2) ==
  IF email = Absent \/ ~Includes(email, "@") \/ Len(email) < MinEmailLength
  THEN "bad email"
  ELSE IF password = Absent \/ Len(password) < MinPasswordLength
  THEN "short password"
  ELSE IF findUserByEmailAnyProvider(email) # 0
  THEN "email exists"
  ELSE ""

(* which check of POST /register rejects the form: "" when none does *)
RegisterError(email, password, password2) ==
  IF email = Absent \/ ~Includes(email, "@") \/ Len(email) < MinEmailLength
  THEN "bad email"
  ELSE IF password = Absent \/ Len(password) < MinPasswordLength
  THEN "short password"
  ELSE IF password # password2
  THEN "password mismatch"
  ELSE IF findUserByEmailAnyProvider(email) # 0
  THEN "email exists"
  ELSE ""

(* POST /register *)
Register(s, nextIn, emailIn, nameIn, password, password2, salt) ==
  LET nextUrl == sanitizeNextUrl(Or(nextIn, RootPath))
      email == normalizeEmail(emailIn)
      displayName == Trim(nameIn)
      error == RegisterError(email, password, password2)
  IN IF error # ""
     THEN /\ last' = [Resp("register", s, 302) EXCEPT
                        !.redirect = RegisterPath, !.body = error, !.nextIn = nextIn]
          /\ UNCHANGED <<USERS, USER_LIKES, TRACKS, PLAYLISTS, session, inflight, usedStates>>
     ELSE \E id \in FreshUserIds :
            LET user == LocalUser(id, email, displayName, password, salt)
                created == EnsureLikes(USER_LIKES, id)
                merged == mergeGuestLikesIntoUser(created, getGuestLikes(s), id)
            IN /\ USERS' = Append(USERS, user)
               /\ USER_LIKES' = merged.likes
               /\ session' = [session EXCEPT ![s].userId = id,
                                             ![s].guestLikes = merged.guest]
               /\ last' = [Resp("register", s, 302) EXCEPT
                             !.redirect = nextUrl, !.body = "ok", !.nextIn = nextIn,
                             !.before = getGuestLikes(s),
                             !.user = session[s].userId]
               /\ UNCHANGED <<TRACKS, PLAYLISTS, inflight, usedStates>>

(* POST /login *)
Login(s, nextIn, emailIn, password) ==
  LET nextUrl == sanitizeNextUrl(Or(nextIn, RootPath))
      email == Trim(emailIn)
      user == findUserByEmail(email)
  IN IF user = 0 \/ ~verifyPassword(password, USERS[user].passwordHash)
     THEN /\ last' = [Resp("login", s, 302) EXCEPT
                        !.redirect = LoginPath, !.body = "bad credentials",
                        !.nextIn = nextIn]
          /\ UNCHANGED <<USERS, USER_LIKES, TRACKS, PLAYLISTS, session, inflight, usedStates>>
     ELSE LET id == USERS[user].id
              merged == mergeGuestLikesIntoUser(USER_LIKES, getGuestLikes(s), id)
          IN /\ USER_LIKES' = merged.likes
             /\ session' = [session EXCEPT ![s].userId = id,
                                           ![s].guestLikes = merged.guest]
             /\ last' = [Resp("login", s, 302) EXCEPT
                           !.redirect = nextUrl, !.body = "ok", !.nextIn = nextIn,
                           !.before = getGuestLikes(s),
                             !.user = session[s].userId]
             /\ UNCHANGED <<USERS, TRACKS, PLAYLISTS, inflight, usedStates>>

DemoAccounts == [k \in {"admin", "artist", "user"} |-> "u_" \o k]

(* GET /login/demo/:kind *)
DemoLogin(s, nextIn, kind) ==
  LET nextUrl == sanitizeNextUrl(Or(nextIn, RootPath))
  IN IF kind \notin DOMAIN DemoAccounts
     THEN /\ last' = [Resp("demo", s, 302) EXCEPT
                        !.redirect = LoginPath, !.body = "unknown demo account",
                        !.nextIn = nextIn]
          /\ UNCHANGED <<USERS, USER_LIKES, TRACKS, PLAYLISTS, session, inflight, usedStates>>
     ELSE LET id == DemoAccounts[kind]
              merged == mergeGuestLikesIntoUser(USER_LIKES, getGuestLikes(s), id)
          IN /\ USER_LIKES' = merged.likes
             /\ session' = [session EXCEPT ![s].userId = id,
                                           ![s].guestLikes = merged.guest]
             /\ last' = [Resp("demo", s, 302) EXCEPT
                           !.redirect = nextUrl, !.body = "ok", !.nextIn = nextIn,
                           !.before = getGuestLikes(s),
                             !.user = session[s].userId]
             /\ UNCHANGED <<USERS, TRACKS, PLAYLISTS, inflight, usedStates>>

(* GET /logout: req.session.destroy *)
(* a logout that destroys every client's session *)
Logout_AllSessions(s) ==
  /\ session' = [x \in DOMAIN session |-> NewSession]
  /\ usedStates' = {}
  /\ last' = [Resp("logout", s, 302) EXCEPT !.redirect = RootPath]
  /\ UNCHANGED <<USERS, USER_LIKES, TRACKS, PLAYLISTS, inflight>>

Logout(s) ==
  /\ session' = [session EXCEPT ![s] = NewSession]
  /\ usedStates' = DropSession(s)
  /\ last' = [Resp("logout", s, 302) EXCEPT !.redirect = RootPath]
  /\ UNCHANGED <<USERS, USER_LIKES, TRACKS, PLAYLISTS, inflight>>

----------------------------------------------------------------------------
(* OAuth *)

ProviderAuthorizeUrl == <<"h","t","t","p","s",":","/","/">>

(* GET /auth/<provider>: state is the fresh randomBytes token *)
OAuthStart(s, provider, nextIn, state) ==
  IF ~providerConfigured(provider)
  THEN /\ last' = [Resp("oauthStart", s, 500) EXCEPT
                     !.provider = provider, !.body = "not configured", !.nextIn = nextIn]
       /\ UNCHANGED <<USERS, USER_LIKES, TRACKS, PLAYLISTS, session, inflight, usedStates>>
  ELSE /\ session' = [session EXCEPT ![s] =
                        setOauthNext(setOauthState(@, provider, state), provider,
                                     Or(nextIn, RootPath))]
       /\ usedStates' = usedStates \ {<<s, provider>>}
       /\ last' = [Resp("oauthStart", s, 302) EXCEPT
                     !.provider = provider, !.redirect = ProviderAuthorizeUrl,
                     !.nextIn = nextIn, !.stateIn = state]
       /\ UNCHANGED <<USERS, USER_LIKES, TRACKS, PLAYLISTS, inflight>>

(* GET /auth/<provider>/callback up to its first await: the state check, *)
(* the code check, then the token request goes out                       *)
CallbackBegin(s, provider, state, hasCode) ==
  /\ inflight[s].phase = "idle"
  /\ IF ~checkOauthState(session[s], provider, state)
     THEN /\ last' = [Resp("oauthCallback", s, 400) EXCEPT
                        !.provider = provider, !.body = "Bad state", !.stateIn = state]
          /\ UNCHANGED inflight
     ELSE IF ~hasCode
     THEN /\ last' = [Resp("oauthCallback", s, 400) EXCEPT
                        !.provider = provider, !.body = "No code", !.stateIn = state]
          /\ UNCHANGED inflight
     ELSE /\ last' = [Resp("oauthCallback", s, 0) EXCEPT
                        !.provider = provider, !.body = "await token", !.stateIn = state]
          /\ inflight' = [inflight EXCEPT ![s] =
                            [phase |-> "token", provider |-> provider, state |-> state]]
  /\ UNCHANGED <<USERS, USER_LIKES, TRACKS, PLAYLISTS, session, usedStates>>

(* a failed token exchange that forgets where the login was to lead *)
CallbackToken_ConsumesNext(s, ok) ==
  /\ inflight[s].phase = "token"
  /\ IF ok
     THEN /\ inflight' = [inflight EXCEPT ![s].phase = "profile"]
          /\ last' = [Resp("oauthToken", s, 0) EXCEPT
                        !.provider = inflight[s].provider, !.body = "await profile"]
          /\ UNCHANGED session
     ELSE /\ inflight' = [inflight EXCEPT ![s] = Idle]
          /\ last' = [Resp("oauthToken", s, 500) EXCEPT
                        !.provider = inflight[s].provider, !.body = "token error"]
          /\ session' = [session EXCEPT ![s] =
                           consumeOauthNext(@, inflight[s].provider).sess]
  /\ UNCHANGED <<USERS, USER_LIKES, TRACKS, PLAYLISTS, usedStates>>

(* the token response arrives (ok = FALSE: an error status, or fetch threw) *)
CallbackToken(s, ok) ==
  /\ inflight[s].phase = "token"
  /\ IF ok
     THEN /\ inflight' = [inflight EXCEPT ![s].phase = "profile"]
          /\ last' = [Resp("oauthToken", s, 0) EXCEPT
                        !.provider = inflight[s].provider, !.body = "await profile"]
     ELSE /\ inflight' = [inflight EXCEPT ![s] = Idle]
          /\ last' = [Resp("oauthToken", s, 500) EXCEPT
                        !.provider = inflight[s].provider, !.body = "token error"]
  /\ UNCHANGED <<USERS, USER_LIKES, TRACKS, PLAYLISTS, session, usedStates>>

(* what each callback passes to upsertOauthUser, from the provider's answer *)
NormalizeProfile(provider, me) ==
  [providerId |-> me.id,
   email |-> me.email,
   displayName |-> IF provider = "vk"
                   THEN Or(me.name, Or(me.email, VkDefaultName))
                   ELSE Or(me.name, me.email),
   avatar |-> me.avatar]

(* the profile response arrives and the handler runs to its end; a new *)
(* account takes a fresh id                                             *)
CallbackProfile(s, ok, me) ==
  /\ inflight[s].phase = "profile"
  /\ inflight' = [inflight EXCEPT ![s] = Idle]
  /\ IF ~ok
     THEN /\ last' = [Resp("oauthDone", s, 500) EXCEPT
                        !.provider = inflight[s].provider, !.body = "profile error"]
          /\ UNCHANGED <<USERS, USER_LIKES, session, usedStates>>
     ELSE LET provider == inflight[s].provider
              profile == NormalizeProfile(provider, me)
              path == upsertOauthUser(provider, profile.providerId, profile.email,
                                      profile.displayName, profile.avatar, None).path
          IN \E newId \in IF path = "create" THEN FreshUserIds ELSE {None} :
               LET up == upsertOauthUser(provider, profile.providerId, profile.email,
                                         profile.displayName, profile.avatar, newId)
                   merged == mergeGuestLikesIntoUser(up.likes, getGuestLikes(s), up.user)
                   authed == [session[s] EXCEPT !.userId = up.user,
                                                !.guestLikes = merged.guest]
                   consumed == consumeOauthNext(authed, provider)
               IN /\ USERS' = up.users
                  /\ USER_LIKES' = merged.likes
                  /\ session' = [session EXCEPT ![s] = consumed.sess]
                  /\ usedStates' =
                       IF session[s].oauthStates[provider] = inflight[s].state
                       THEN usedStates \cup {<<s, provider>>} ELSE usedStates
                  /\ last' = [Resp("oauthDone", s, 302) EXCEPT
                                !.provider = provider, !.redirect = consumed.target,
                                !.body = up.path, !.before = getGuestLikes(s),
                             !.user = session[s].userId]
  /\ UNCHANGED <<TRACKS, PLAYLISTS>>

----------------------------------------------------------------------------
(* API: like / unlike *)

(* a handler without the visibility check *)
LikeStatus_NoVisibilityCheck(s, trackId) ==
  IF FindTrack(readTracks, trackId) = 0 THEN 404 ELSE 200

(* a handler that refuses callers who are not logged in *)
LikeStatus_LoginRequired(s, trackId) ==
  IF FindTrack(readTracks, trackId) = 0 THEN 404
  ELSE IF getCurrentUser(s) = None THEN 403
  ELSE IF ~isTrackVisibleToUser(readTracks[FindTrack(readTracks, trackId)], getCurrentUser(s))
  THEN 403
  ELSE 200

(* the status POST /api/like/:trackId answers with *)
LikeStatus(s, trackId) ==
  LET user == getCurrentUser(s)
      allTracks == readTracks
      track == FindTrack(allTracks, trackId)
  IN IF track = 0 THEN 404
     ELSE IF ~isTrackVisibleToUser(allTracks[track], user) THEN 403
     ELSE 200

(* POST /api/like/:trackId *)
Like(s, trackId) ==
  LET user == getCurrentUser(s)
      status == LikeStatus(s, trackId)
      before == getEffectiveLikes(s)
  IN IF status # 200
     THEN /\ last' = [Resp("like", s, status) EXCEPT !.track = trackId, !.before = before]
          /\ UNCHANGED <<USERS, USER_LIKES, TRACKS, PLAYLISTS, session, inflight, usedStates>>
     ELSE IF user # None
     THEN LET toggled == ToggleLike(getUserLikes(USER_LIKES, user), trackId)
              stored == setUserLikes(USER_LIKES, user, toggled.likes)
          IN /\ USER_LIKES' = stored
             /\ last' = [Resp("like", s, 200) EXCEPT
                           !.track = trackId, !.before = before, !.liked = toggled.liked,
                           !.likes = getUserLikes(stored, user)]
             /\ UNCHANGED <<USERS, TRACKS, PLAYLISTS, session, inflight, usedStates>>
     ELSE LET toggled == ToggleLike(getGuestLikes(s), trackId)
          IN /\ session' = [session EXCEPT ![s].guestLikes = toggled.likes]
             /\ last' = [Resp("like", s, 200) EXCEPT
                           !.track = trackId, !.before = before, !.liked = toggled.liked,
                           !.likes = toggled.likes, !.guest = TRUE]
             /\ UNCHANGED <<USERS, USER_LIKES, TRACKS, PLAYLISTS, inflight, usedStates>>

(* GET /track/:id: the page, or 404 for a missing or a hidden track *)
ViewTrack(s, id) ==
  LET user == getCurrentUser(s)
      allTracks == readTracks
      trackRaw == FindTrack(allTracks, id)
  IN /\ last' = [Resp("view", s,
                      IF trackRaw = 0 THEN 404
                      ELSE IF ~isTrackVisibleToUser(allTracks[trackRaw], user) THEN 404
                      ELSE 200) EXCEPT !.track = id]
     /\ UNCHANGED <<USERS, USER_LIKES, TRACKS, PLAYLISTS, session, inflight, usedStates>>

(* hydrate(req).tracks: the tracks the requester may see *)
hydrate(s) ==
  SelectSeq(readTracks, LAMBDA t : isTrackVisibleToUser(t, getCurrentUser(s)))

(* a page that looks the ids up among all tracks *)
PlaylistItems_Unfiltered(s, trackIds) ==
  LET tracks == readTracks
      found == [k \in 1..Len(trackIds) |-> FindTrack(tracks, trackIds[k])]
      kept == SelectSeq(found, LAMBDA i : i # 0)
  IN [k \in 1..Len(kept) |-> tracks[kept[k]].id]

(* trackIds.map(id => tracks.find(t => t.id === id)).filter(Boolean), as ids *)
PlaylistItems(s, trackIds) ==
  LET tracks == hydrate(s)
      found == [k \in 1..Len(trackIds) |-> FindTrack(tracks, trackIds[k])]
      kept == SelectSeq(found, LAMBDA i : i # 0)
  IN [k \in 1..Len(kept) |-> tracks[kept[k]].id]

(* GET /playlist/:id *)
ViewPlaylist(s, id) ==
  LET playlist == FindIndex(PLAYLISTS, LAMBDA p : p.id = id)
  IN /\ IF playlist = 0
        THEN last' = [Resp("playlist", s, 404) EXCEPT !.body = "Playlist not found"]
        ELSE LET items == PlaylistItems(s, PLAYLISTS[playlist].trackIds)
                 totalCount == Len(PLAYLISTS[playlist].trackIds)
                 visibleCount == Len(items)
             IN last' = [Resp("playlist", s, 200) EXCEPT
                           !.items = items,
                           !.hidden = IF visibleCount < totalCount
                                      THEN totalCount - visibleCount ELSE 0]
     /\ UNCHANGED <<USERS, USER_LIKES, TRACKS, PLAYLISTS, session, inflight, usedStates>>

(* GET /api/me *)
Me(s) ==
  /\ last' = [Resp("me", s, 200) EXCEPT
                !.user = getCurrentUser(s), !.likes = getEffectiveLikes(s)]
  /\ UNCHANGED <<USERS, USER_LIKES, TRACKS, PLAYLISTS, session, inflight, usedStates>>

----------------------------------------------------------------------------
(* Artist upload and admin moderation *)

(* an upload that goes straight to the catalogue *)
NewTrack_Published(id, title, user) ==
  [id |-> id, title |-> title, artistId |-> UserRecord(user).artistId,
   status |-> "published", published |-> "", plays |-> 0, likes |-> 0,
   submittedBy |-> user, publishedAt |-> FALSE, rejectedAt |-> FALSE]

NewTrack(id, title, user) ==
  [id |-> id, title |-> title, artistId |-> UserRecord(user).artistId,
   status |-> "pending", published |-> "", plays |-> 0, likes |-> 0,
   submittedBy |-> user, publishedAt |-> FALSE, rejectedAt |-> FALSE]

Denied(op, s, gate) ==
  IF gate = "login"
  THEN [Resp(op, s, 302) EXCEPT !.redirect = LoginPath, !.body = "login required"]
  ELSE [Resp(op, s, 403) EXCEPT !.body = "forbidden"]

(* POST /artist/upload; fileError: the upload middleware refused a file *)
Upload(s, titleIn, fileError) ==
  LET gate == requireRole("artist", s)
      user == getCurrentUser(s)
      title == Trim(titleIn)
  IN IF gate # "next"
     THEN /\ last' = Denied("upload", s, gate)
          /\ UNCHANGED <<USERS, USER_LIKES, TRACKS, PLAYLISTS, session, inflight, usedStates>>
     ELSE IF fileError
     THEN /\ last' = [Resp("upload", s, 302) EXCEPT
                        !.redirect = UploadPath, !.body = "file error"]
          /\ UNCHANGED <<USERS, USER_LIKES, TRACKS, PLAYLISTS, session, inflight, usedStates>>
     ELSE IF UserRecord(user).artistId = None
     THEN /\ last' = [Resp("upload", s, 400) EXCEPT !.body = "no artistId"]
          /\ UNCHANGED <<USERS, USER_LIKES, TRACKS, PLAYLISTS, session, inflight, usedStates>>
     ELSE IF title = Absent
     THEN /\ last' = [Resp("upload", s, 302) EXCEPT
                        !.redirect = UploadPath, !.body = "title required"]
          /\ UNCHANGED <<USERS, USER_LIKES, TRACKS, PLAYLISTS, session, inflight, usedStates>>
     ELSE \E id \in FreshTrackIds :
            /\ TRACKS' = <<NewTrack(id, title, user)>> \o readTracks
            /\ last' = [Resp("upload", s, 302) EXCEPT
                          !.redirect = UploadPath, !.body = "ok", !.track = id]
            /\ UNCHANGED <<USERS, USER_LIKES, PLAYLISTS, session, inflight, usedStates>>

(* POST /admin/tracks/:id/approve and .../reject *)
Moderate(op, s, id, status) ==
  LET gate == requireRole("admin", s)
      tracks == readTracks
      t == FindTrack(tracks, id)
  IN /\ IF gate # "next"
        THEN /\ last' = [Denied(op, s, gate) EXCEPT !.track = id]
             /\ UNCHANGED TRACKS
        ELSE IF t = 0
        THEN /\ last' = [Resp(op, s, 404) EXCEPT !.body = "Track not found", !.track = id]
             /\ UNCHANGED TRACKS
        ELSE /\ TRACKS' =
                  [tracks EXCEPT ![t] =
                     IF status = "published"
                     THEN [@ EXCEPT !.status = status, !.publishedAt = TRUE]
                     ELSE [@ EXCEPT !.status = status, !.rejectedAt = TRUE]]
             /\ last' = [Resp(op, s, 302) EXCEPT
                           !.redirect = AdminPath, !.body = "ok", !.track = id]
     /\ UNCHANGED <<USERS, USER_LIKES, PLAYLISTS, session, inflight, usedStates>>

(* an approve that writes the other status *)
Approve_AsReject(s, id) == Moderate("approve", s, id, "rejected")

Approve(s, id) == Moderate("approve", s, id, "published")

(* a reject that sends the track back to the queue *)
Reject_Requeue(s, id) == Moderate("reject", s, id, "pending")

Reject(s, id) == Moderate("reject", s, id, "rejected")

(* a delete that leaves the playlists alone *)
DeleteTrack_NoCascade(s, id) ==
  LET gate == requireRole("admin", s)
  IN /\ IF gate # "next"
        THEN /\ last' = [Denied("deleteTrack", s, gate) EXCEPT !.track = id]
             /\ UNCHANGED <<TRACKS, PLAYLISTS>>
        ELSE /\ TRACKS' = SelectSeq(readTracks, LAMBDA x : x.id # id)
             /\ UNCHANGED PLAYLISTS
             /\ last' = [Resp("deleteTrack", s, 302) EXCEPT
                           !.redirect = AdminPath, !.body = "ok", !.track = id]
     /\ UNCHANGED <<USERS, USER_LIKES, session, inflight, usedStates>>

(* POST /admin/tracks/:id/delete *)
DeleteTrack(s, id) ==
  LET gate == requireRole("admin", s)
  IN /\ IF gate # "next"
        THEN /\ last' = [Denied("deleteTrack", s, gate) EXCEPT !.track = id]
             /\ UNCHANGED <<TRACKS, PLAYLISTS>>
        ELSE /\ TRACKS' = SelectSeq(readTracks, LAMBDA x : x.id # id)
             /\ PLAYLISTS' =
                  [i \in 1..Len(PLAYLISTS) |->
                     [PLAYLISTS[i] EXCEPT !.trackIds = Without(@, id)]]
             /\ last' = [Resp("deleteTrack", s, 302) EXCEPT
                           !.redirect = AdminPath, !.body = "ok", !.track = id]
     /\ UNCHANGED <<USERS, USER_LIKES, session, inflight, usedStates>>

(* a playlist delete that empties the collection *)
DeletePlaylist_All(s, id) ==
  LET gate == requireRole("admin", s)
  IN /\ IF gate # "next"
        THEN /\ last' = Denied("deletePlaylist", s, gate)
             /\ UNCHANGED PLAYLISTS
        ELSE /\ PLAYLISTS' = << >>
             /\ last' = [Resp("deletePlaylist", s, 302) EXCEPT
                           !.redirect = AdminPath, !.body = "ok"]
     /\ UNCHANGED <<USERS, USER_LIKES, TRACKS, session, inflight, usedStates>>

(* POST /admin/playlists/:id/delete *)
DeletePlaylist(s, id) ==
  LET gate == requireRole("admin", s)
  IN /\ IF gate # "next"
        THEN /\ last' = Denied("deletePlaylist", s, gate)
             /\ UNCHANGED PLAYLISTS
        ELSE /\ PLAYLISTS' = SelectSeq(PLAYLISTS, LAMBDA pl : pl.id # id)
             /\ last' = [Resp("deletePlaylist", s, 302) EXCEPT
                           !.redirect = AdminPath, !.body = "ok"]
     /\ UNCHANGED <<USERS, USER_LIKES, TRACKS, session, inflight, usedStates>>

----------------------------------------------------------------------------
(* Initial state and inputs *)

Sessions == {"s1", "s2"}

Init ==
  /\ USERS = SeedUsers
  /\ USER_LIKES = SeedLikes
  /\ TRACKS = SeedTracks
  /\ PLAYLISTS = SeedPlaylists
  /\ session = [s \in Sessions |-> NewSession]
  /\ inflight = [s \in Sessions |-> Idle]
  /\ last = Resp("init", None, 0)
  /\ usedStates = {}

LibraryPath == <<"/","l","i","b">>
ProtocolRelative == <<"/","/","e","v","i","l">>
SchemeQualified == <<"h","t","t","p","s",":","/","/","e","v","i","l">>

BackslashPath == <<"/","\\","e","v","i","l">>

NextInputs ==
  {Absent, RootPath, LibraryPath, BackslashPath, ProtocolRelative, SchemeQualified}

BobEmail == <<"b","o","b","@","x",".","c","o","m">>
BobEmailTyped == <<" ","B","o","b","@","X",".","c","o","m">>
UserEmailTyped == <<"U","S","E","R","@","s","o","u","n","d","h","u","b",".","l","o","c","a","l"," ">>
ShortEmail == <<"b","@","x">>
NoAtEmail == <<"b","o","b",".","x",".","c","o","m">>
Secret1 == <<"s","e","c","r","e","t","1">>
ShortPassword == <<"a","b","c">>

StateTokens == {"k1", "k2"}

TrackIds == {"t1", "t2", "t_n1", "t_missing"}

Profile(id, email, name, avatar) ==
  [id |-> id, email |-> email, name |-> name, avatar |-> avatar]

Pid(t, v) == [t |-> t, v |-> v]

----------------------------------------------------------------------------
(* The identity store: registration, logins and OAuth logins of one client *)

IdentityProfiles ==
  {Profile(id, email, Absent, Absent) :
     id \in {Pid("number", "7"), Pid("string", "8")},
     email \in {Absent, UserEmail, AdminEmail}}

NextIdentity ==
  \E s \in {"s1"} :
    \/ \E e \in {BobEmailTyped, UserEmailTyped} :
         Register(s, Absent, e, Absent, Secret1, Secret1, "salt_n")
    \/ Login(s, Absent, UserEmailTyped, UserPassword)
    \/ DemoLogin(s, Absent, "admin")
    \/ Logout(s)
    \/ OAuthStart(s, "google", Absent, "k1")
    \/ CallbackBegin(s, "google", "k1", TRUE)
    \/ \E ok \in BOOLEAN : CallbackToken(s, ok)
    \/ \E ok \in BOOLEAN, me \in IdentityProfiles : CallbackProfile(s, ok, me)

SpecIdentity == Init /\ [][NextIdentity]_vars

----------------------------------------------------------------------------
(* Claims on the identity store *)

UserIndexes == 1..Len(USERS)

(* C1: at most one user record with provider 'local' has any given *)
(* normalized email.                                                *)
C1_OneLocalUserPerEmail ==
  \A i, j \in UserIndexes :
    ( /\ USERS[i].provider = "local"
      /\ USERS[j].provider = "local"
      /\ ToLowerCase(Trim(USERS[i].email)) = ToLowerCase(Trim(USERS[j].email)) )
    => i = j

OauthPids == {"7", "8", "undefined"}

ReachableBy(u, provider, pid) ==
  \/ (u.provider = provider /\ u.providerId = pid)
  \/ u.oauthLinks[provider] = pid

(* C2: no two distinct user records are reachable by the same          *)
(* (provider, providerId) identity, be it the record's primary identity *)
(* or an entry of its oauthLinks.                                       *)
C2_UniqueOauthIdentity ==
  \A provider \in Providers, pid \in OauthPids :
    \A i, j \in UserIndexes :
      (ReachableBy(USERS[i], provider, pid) /\ ReachableBy(USERS[j], provider, pid))
      => i = j

(* an account created by OAuth beside a local account linked by email *)
C2_Witness ==
  \E i, j \in UserIndexes :
    /\ USERS[i].provider = "google" /\ USERS[i].providerId \in OauthPids
    /\ USERS[j].provider = "local" /\ USERS[j].oauthLinks["google"] \in OauthPids
    /\ last.op = "oauthDone" /\ last.status = 302

----------------------------------------------------------------------------
(* The OAuth session state: authorization starts, callbacks and the *)
(* redirects that follow a login                                    *)

OAuthProfiles == {Profile(Pid("number", "7"), Absent, Absent, Absent)}

NextOAuth ==
  \E s \in {"s1"} :
    \/ \E p \in Providers, n \in {LibraryPath, ProtocolRelative}, k \in StateTokens :
         OAuthStart(s, p, n, k)
    \/ \E p \in Providers, k \in StateTokens \cup {None}, c \in BOOLEAN :
         CallbackBegin(s, p, k, c)
    \/ \E ok \in BOOLEAN : CallbackToken(s, ok)
    \/ \E ok \in BOOLEAN, me \in OAuthProfiles : CallbackProfile(s, ok, me)
    \/ Logout(s)
    \/ Like(s, "t1")

SpecOAuth == Init /\ [][NextOAuth]_vars

----------------------------------------------------------------------------
(* Claims on the OAuth session state *)

(* C3: a callback for provider p whose state parameter is missing or     *)
(* differs from the state recorded for p in that session (also when only *)
(* another provider's state, or none, is recorded) is answered 400 Bad   *)
(* state and changes neither the session nor the users nor the like sets. *)
C3_BadStateChangesNothing ==
  [][\A s \in Sessions, p \in Providers :
       ( /\ last'.op = "oauthCallback" /\ last'.sid = s /\ last'.provider = p
         /\ (last'.stateIn = None \/ last'.stateIn # session[s].oauthStates[p]) )
       => /\ last'.status = 400 /\ last'.body = "Bad state"
          /\ session' = session
          /\ USERS' = USERS
          /\ USER_LIKES' = USER_LIKES
          /\ inflight' = inflight]_vars

(* a rejected callback in a session that holds a guest like and has the *)
(* presented state recorded for another provider only                   *)
C3_Witness ==
  /\ last.op = "oauthCallback" /\ last.status = 400 /\ last.body = "Bad state"
  /\ last.stateIn # None
  /\ session[last.sid].oauthStates[last.provider] = None
  /\ \E q \in Providers : session[last.sid].oauthStates[q] = last.stateIn
  /\ session[last.sid].guestLikes # << >>

(* C4: the anti-forgery state is single-use: after a callback for p has *)
(* completed successfully in a session, a later callback for p in that  *)
(* session is answered Bad state unless a new authorization for p was   *)
(* started in between.                                                  *)
C4_StateSingleUse ==
  [][\A s \in Sessions, p \in Providers :
       ( /\ <<s, p>> \in usedStates
         /\ last'.op = "oauthCallback" /\ last'.sid = s /\ last'.provider = p )
       => last'.status = 400]_vars

(* C5: a successful callback for p redirects to the next recorded for p  *)
(* ('/' when none is) and deletes it, leaving the next of every other    *)
(* provider; a further successful callback for p with no authorization   *)
(* started since redirects to '/'.                                       *)
C5_NextSingleUse ==
  [][\A s \in Sessions, p \in Providers :
       ( /\ last'.op = "oauthDone" /\ last'.status = 302
         /\ last'.sid = s /\ last'.provider = p )
       => /\ last'.redirect =
               IF session[s].oauthNext[p] = Absent THEN <<"/">> ELSE session[s].oauthNext[p]
          /\ session'[s].oauthNext[p] = Absent
          /\ \A q \in Providers \ {p} : session'[s].oauthNext[q] = session[s].oauthNext[q]
          /\ (<<s, p>> \in usedStates => last'.redirect = <<"/">>)]_vars

(* a second successful callback on the same recorded state went to '/' *)
(* while another provider's next is still recorded                     *)
C5_Witness ==
  /\ last.op = "oauthDone" /\ last.status = 302 /\ last.body = "direct"
  /\ last.redirect = <<"/">>
  /\ <<last.sid, last.provider>> \in usedStates
  /\ \E q \in Providers \ {last.provider} : session[last.sid].oauthNext[q] = LibraryPath

----------------------------------------------------------------------------
(* The redirects after registration, login and OAuth login *)

NextRedirect ==
  \E s \in {"s1"} :
    \/ \E n \in NextInputs :
         \/ Register(s, n, BobEmailTyped, Absent, Secret1, Secret1, "salt_n")
         \/ Login(s, n, UserEmailTyped, UserPassword)
         \/ \E k \in {"artist", "guest"} : DemoLogin(s, n, k)
         \/ OAuthStart(s, "google", n, "k1")
    \/ CallbackBegin(s, "google", "k1", TRUE)
    \/ \E ok \in BOOLEAN : CallbackToken(s, ok)
    \/ \E ok \in BOOLEAN, me \in OAuthProfiles : CallbackProfile(s, ok, me)
    \/ Logout(s)

SpecRedirect == Init /\ [][NextRedirect]_vars

SameOriginPath(url) ==
  /\ Len(url) >= 1 /\ url[1] = "/"
  /\ ~(Len(url) >= 2 /\ url[2] = "/")

(* absent, scheme-qualified (not starting with '/') or protocol-relative *)
UnsafeNext(n) ==
  \/ n = Absent
  \/ n[1] # "/"
  \/ (Len(n) >= 2 /\ n[2] = "/")

LoggedInBy(ops) == last.op \in ops /\ last.status = 302 /\ last.body = "ok"

(* C6: the redirect target after a successful registration, local login, *)
(* demo login or OAuth callback starts with '/' and not with '//', and a *)
(* supplied next that is absent, scheme-qualified or protocol-relative   *)
(* is replaced by '/'.                                                   *)
C6_SafeRedirect ==
  /\ (LoggedInBy({"register", "login", "demo"}) \/ (last.op = "oauthDone" /\ last.status = 302))
       => SameOriginPath(last.redirect)
  /\ (LoggedInBy({"register", "login", "demo"}) /\ UnsafeNext(last.nextIn))
       => last.redirect = <<"/">>
  /\ (last.op = "oauthStart" /\ last.status = 302 /\ UnsafeNext(last.nextIn))
       => session[last.sid].oauthNext[last.provider] = <<"/">>
  /\ \A s \in Sessions, p \in Providers :
       session[s].oauthNext[p] = Absent \/ SameOriginPath(session[s].oauthNext[p])

(* a registration that supplied a protocol-relative next *)
C6_Witness ==
  /\ LoggedInBy({"register"})
  /\ last.nextIn = ProtocolRelative
  /\ last.redirect = <<"/">>

--------------------------------------------------------------------------------
(* The like store under moderation: client s1 is a guest or the demo    *)
(* user, client s2 uploads as the demo artist and moderates as the demo *)
(* admin, and both like the uploaded track                              *)

NextLikes ==
  \/ DemoLogin("s1", Absent, "user")
  \/ \E t \in {"t1", "t_n1", "t_missing"} : Like("s1", t)
  \/ Like("s2", "t_n1")
  \/ \E s \in Sessions : Logout(s)
  \/ \E k \in {"admin", "artist"} : DemoLogin("s2", Absent, k)
  \/ \E title \in {<<"N">>, <<" ">>} : Upload("s2", title, FALSE)
  \/ \E t \in {"t_n1"} : Approve("s2", t) \/ Reject("s2", t) \/ DeleteTrack("s2", t)

SpecLikes == Init /\ [][NextLikes]_vars

----------------------------------------------------------------------------
(* Claims on the like endpoint *)

TrackIndexes == 1..Len(TRACKS)

ExistingTrackIds == {TRACKS[i].id : i \in TrackIndexes}

StatusOf(t) ==
  IF t.status # "" THEN t.status
  ELSE IF t.published = "false" THEN "pending" ELSE "published"

CallerOf(s) ==
  IF session[s].userId = None THEN [role |-> "anonymous", artistId |-> None]
  ELSE LET i == CHOOSE i \in UserIndexes : USERS[i].id = session[s].userId
       IN [role |-> USERS[i].role, artistId |-> USERS[i].artistId]

(* the track is published, or the caller is an admin or the owning artist *)
VisibleToCaller(s, t) ==
  \/ StatusOf(t) = "published"
  \/ CallerOf(s).role = "admin"
  \/ (CallerOf(s).role = "artist" /\ CallerOf(s).artistId = t.artistId)

(* the like array that applies to the client: the user's when logged in *)
ActorLikes(s) ==
  IF session[s].userId = None THEN session[s].guestLikes
  ELSE IF session[s].userId \in DOMAIN USER_LIKES THEN USER_LIKES[session[s].userId]
  ELSE << >>

(* C7: for a caller to whom a pending or rejected track is not visible, *)
(* POST /api/like/<its id> answers with the same status code as         *)
(* POST /api/like/<an id that does not exist>.                          *)
C7_HiddenLikeLooksMissing ==
  \A s \in Sessions, i \in TrackIndexes, missing \in TrackIds \ ExistingTrackIds :
    ( /\ StatusOf(TRACKS[i]) \in {"pending", "rejected"}
      /\ ~VisibleToCaller(s, TRACKS[i]) )
    => LikeStatus(s, TRACKS[i].id) = LikeStatus(s, missing)

(* C8: a like toggle on a track id that does not exist, or on a track  *)
(* not visible to the caller, fails and leaves every persisted like    *)
(* set and every session (its guest like set included) as it was.      *)
C8_FailedLikeMutatesNothing ==
  [][\A s \in Sessions :
       ( /\ last'.op = "like" /\ last'.sid = s
         /\ \/ last'.track \notin ExistingTrackIds
            \/ \E i \in TrackIndexes :
                 TRACKS[i].id = last'.track /\ ~VisibleToCaller(s, TRACKS[i]) )
       => /\ last'.status \in {403, 404}
          /\ USER_LIKES' = USER_LIKES
          /\ session' = session]_vars

(* a logged-in caller holding likes was refused a hidden track *)
C8_Witness ==
  /\ last.op = "like" /\ last.status = 403
  /\ last.track \in ExistingTrackIds
  /\ session[last.sid].userId # None
  /\ ActorLikes(last.sid) # << >>

(* C9: two consecutive toggles of one track by one actor return the     *)
(* actor's like set to what it was before the first; when the track was *)
(* absent the first reports liked=true and the second liked=false.      *)
C9_LikeThenUnlike ==
  [][\A s \in Sessions :
       ( /\ last.op = "like" /\ last.status = 200 /\ last.sid = s
         /\ last'.op = "like" /\ last'.status = 200 /\ last'.sid = s
         /\ last'.track = last.track )
       => /\ Range(ActorLikes(s)') = Range(last.before)
          /\ Range(last'.likes) = Range(last.before)
          /\ (last.track \notin Range(last.before) => (last.liked /\ ~last'.liked))]_vars

(* a logged-in user has just unliked a track liked one request earlier, *)
(* among other likes                                                    *)
C9_Witness ==
  /\ last.op = "like" /\ last.status = 200 /\ ~last.liked
  /\ session[last.sid].userId # None
  /\ last.track \in Range(last.before)
  /\ Range(ActorLikes(last.sid)) = Range(last.before) \ {last.track}
  /\ ActorLikes(last.sid) # << >>

(* C10: for an unauthenticated session with an empty guest set and a     *)
(* published track t, the like answers ok, liked=true, likes=[t],        *)
(* guest=true and stores [t] as the guest set, touching no persisted     *)
(* set; repeated, it answers ok, liked=false, likes=[] and the guest set *)
(* is empty again.                                                       *)
C10_GuestLikeScenario ==
  [][\A s \in Sessions, i \in TrackIndexes :
       ( /\ last'.op = "like" /\ last'.sid = s /\ last'.track = TRACKS[i].id
         /\ session[s].userId = None
         /\ StatusOf(TRACKS[i]) = "published" )
       => /\ session[s].guestLikes = << >> =>
               /\ last'.status = 200 /\ last'.liked /\ last'.guest
               /\ last'.likes = <<TRACKS[i].id>>
               /\ session'[s].guestLikes = <<TRACKS[i].id>>
               /\ USER_LIKES' = USER_LIKES
          /\ session[s].guestLikes = <<TRACKS[i].id>> =>
               /\ last'.status = 200 /\ ~last'.liked
               /\ last'.likes = << >>
               /\ session'[s].guestLikes = << >>
               /\ USER_LIKES' = USER_LIKES]_vars

(* the repeated call of the scenario has been answered *)
C10_Witness ==
  /\ last.op = "like" /\ last.status = 200 /\ last.guest /\ ~last.liked
  /\ last.before = <<last.track>>
  /\ last.likes = << >>
  /\ session[last.sid].guestLikes = << >>

----------------------------------------------------------------------------
(* Guest likes folded into an account at login *)

(* GET /login/demo/:kind by a client that holds no guest likes *)
StaffDemoLogin(s, kind) ==
  /\ session[s].guestLikes = << >>
  /\ DemoLogin(s, Absent, kind)

(* POST /api/like/:trackId by a client that is not logged in *)
GuestLike(s, trackId) ==
  /\ session[s].userId = None
  /\ Like(s, trackId)

(* POST /api/like/:trackId by a client logged in as userId *)
UserLike(s, userId, trackId) ==
  /\ session[s].userId = userId
  /\ Like(s, trackId)

NextMerge ==
  \E s \in {"s1"} :
    \/ \E k \in {"artist", "admin"} : StaffDemoLogin(s, k)
    \/ Login(s, Absent, UserEmailTyped, UserPassword)
    \/ Register(s, Absent, BobEmailTyped, Absent, Secret1, Secret1, "salt_n")
    \/ Logout(s)
    \/ \E t \in {"t_n1", "t1"} : GuestLike(s, t)
    \/ UserLike(s, "u_user", "t2")
    \/ Upload(s, <<"N">>, FALSE)
    \/ Approve(s, "t_n1")

SpecMerge == Init /\ [][NextMerge]_vars

(* the step just taken answered a request of session s that logged it in *)
LoggedIn(s) ==
  /\ last.sid = s
  /\ \/ (last.op \in {"register", "login", "demo"} /\ last.status = 302 /\ last.body = "ok")
     \/ (last.op = "oauthDone" /\ last.status = 302)

NoDuplicates(arr) == Cardinality(Range(arr)) = Len(arr)

PersistedLikes(u) == IF u \in DOMAIN USER_LIKES THEN USER_LIKES[u] ELSE << >>

PersistedLikesAfter(u) == IF u \in DOMAIN USER_LIKES' THEN USER_LIKES'[u] ELSE << >>

(* C11: merging a session's guest likes G into user U whose persisted set *)
(* is L leaves U's persisted set equal, as a set, to L \cup G without     *)
(* duplicates, and leaves every other user's like set unchanged.          *)
C11_MergeIsUnion ==
  [][\A s \in Sessions :
       LoggedIn(s)' =>
         LET U == session'[s].userId
             L == PersistedLikes(U)
             G == session[s].guestLikes
         IN /\ Range(PersistedLikesAfter(U)) = Range(L) \cup Range(G)
            /\ NoDuplicates(PersistedLikesAfter(U))
            /\ \A V \in DOMAIN USER_LIKES \ {U} : USER_LIKES'[V] = USER_LIKES[V]]_vars

(* guest likes <<A, B>> were merged into a user who already liked B and *)
(* a third track C, giving three likes                                  *)
C11_Witness ==
  \E s \in Sessions :
    /\ LoggedIn(s)
    /\ Len(last.before) = 2
    /\ LET likes == PersistedLikes(session[s].userId)
       IN /\ Len(likes) = 3
          /\ likes[1] \in Range(last.before)
          /\ likes[2] \notin Range(last.before)
          /\ likes[3] \in Range(last.before)

(* C12: after a merge the session's guest like set is empty, and a second *)
(* merge for the same session and user changes neither the user's         *)
(* persisted set nor the session.                                         *)
C12_MergeIdempotent ==
  [][\A s \in Sessions :
       LoggedIn(s)' =>
         /\ session'[s].guestLikes = << >>
         /\ mergeGuestLikesIntoUser(USER_LIKES, session[s].guestLikes, session[s].userId)'
              = [likes |-> USER_LIKES', guest |-> session'[s].guestLikes]
         /\ (LoggedIn(s) /\ session'[s].userId = session[s].userId) =>
              /\ USER_LIKES' = USER_LIKES
              /\ session'[s].guestLikes = session[s].guestLikes]_vars

(* a login that merged guest likes has been followed by a second login of *)
(* the same user in the same session                                      *)
C12_Witness ==
  \E s \in Sessions :
    /\ LoggedIn(s)
    /\ last.user = session[s].userId
    /\ last.before = << >>
    /\ session[s].guestLikes = << >>
    /\ Len(PersistedLikes(session[s].userId)) >= 2

(* Logins of every kind in one session *)

NextFold ==
  \E s \in {"s1"} :
    \/ \E k \in {"user", "admin"} : DemoLogin(s, Absent, k)
    \/ Login(s, Absent, ArtistEmail, ArtistPassword)
    \/ Register(s, Absent, BobEmailTyped, Absent, Secret1, Secret1, "salt_n")
    \/ OAuthStart(s, "google", Absent, "k1")
    \/ CallbackBegin(s, "google", "k1", TRUE)
    \/ CallbackToken(s, TRUE)
    \/ \E me \in OAuthProfiles : CallbackProfile(s, TRUE, me)
    \/ Logout(s)
    \/ GuestLike(s, "t1")

SpecFold == Init /\ [][NextFold]_vars

(* C13: once a session's guest likes have been merged into user U by a   *)
(* login, registration or OAuth callback, a later login in that session  *)
(* as a different user V adds none of them to V's persisted set.         *)
C13_GuestLikesFoldedOnce ==
  [][\A s \in Sessions :
       ( /\ LoggedIn(s)'
         /\ session[s].userId # None
         /\ session'[s].userId # session[s].userId )
       => /\ session[s].guestLikes = << >>
          /\ PersistedLikesAfter(session'[s].userId) = PersistedLikes(session'[s].userId)]_vars

(* a session whose guest likes went to one user has logged in as another *)
(* user, whose like set is empty                                         *)
C13_Witness ==
  \E s \in Sessions :
    /\ LoggedIn(s)
    /\ last.user # None /\ last.user # session[s].userId
    /\ PersistedLikes(last.user) # << >>
    /\ PersistedLikes(session[s].userId) = << >>

----------------------------------------------------------------------------
(* Track visibility: every kind of track seen by every kind of requester *)

Statuses == {"published", "pending", "rejected"}

(* one track of the data file: either artist's, any status, or a record *)
(* of the old format with or without published: false                   *)
VisibilityTracks ==
  {[SeedTracks[1] EXCEPT !.artistId = a, !.status = st, !.published = p] :
     a \in {"a1", "a2"}, st \in Statuses \cup {""}, p \in {"", "false"}}

(* the seeded accounts, the artist account with or without an artistId *)
VisibilityUsers ==
  {[i \in 1..Len(SeedUsers) |->
      IF SeedUsers[i].id = "u_artist"
      THEN [SeedUsers[i] EXCEPT !.artistId = a] ELSE SeedUsers[i]] :
     a \in {"a1", None}}

InitVisibility ==
  /\ USERS \in VisibilityUsers
  /\ USER_LIKES = SeedLikes
  /\ TRACKS \in {<<t>> : t \in VisibilityTracks}
  /\ PLAYLISTS = SeedPlaylists
  /\ session \in {[s \in Sessions |->
                     IF s = "s1" THEN [NewSession EXCEPT !.userId = u] ELSE NewSession] :
                   u \in {None, "u_admin", "u_artist", "u_user"}}
  /\ inflight = [s \in Sessions |-> Idle]
  /\ last = Resp("init", None, 0)
  /\ usedStates = {}

NextVisibility ==
  \E s \in Sessions, id \in {"t1", "t_missing"} : ViewTrack(s, id)

SpecVisibility == InitVisibility /\ [][NextVisibility]_vars

(* C14: isTrackVisibleToUser is true exactly when the track is published, *)
(* or the requester is an admin, or the requester is an artist whose      *)
(* artistId equals the track's; a pending or rejected track is invisible  *)
(* to an anonymous requester, to a user-role requester and to an artist   *)
(* who does not own it.                                                   *)
C14_VisibilityRule ==
  /\ \A s \in Sessions, i \in TrackIndexes :
       /\ isTrackVisibleToUser(readTracks[i], getCurrentUser(s)) <=> VisibleToCaller(s, TRACKS[i])
       /\ ( /\ StatusOf(TRACKS[i]) \in {"pending", "rejected"}
            /\ \/ CallerOf(s).role \in {"anonymous", "user"}
               \/ (CallerOf(s).role = "artist" /\ CallerOf(s).artistId # TRACKS[i].artistId) )
          => ~isTrackVisibleToUser(readTracks[i], getCurrentUser(s))
  /\ \A i \in TrackIndexes :
       (last.op = "view" /\ last.track = TRACKS[i].id)
       => (last.status = 200 <=> VisibleToCaller(last.sid, TRACKS[i]))

(* an artist asked for the page of another artist's rejected track and *)
(* got 404                                                             *)
C14_Witness ==
  /\ last.op = "view" /\ last.status = 404
  /\ CallerOf(last.sid).role = "artist" /\ CallerOf(last.sid).artistId = "a1"
  /\ \E i \in TrackIndexes :
       /\ TRACKS[i].id = last.track
       /\ TRACKS[i].status = "rejected"
       /\ TRACKS[i].artistId = "a2"

----------------------------------------------------------------------------
(* Upload and moderation by every role *)

NextModeration ==
  \E s \in {"s1"} :
    \/ \E k \in {"user", "artist", "admin"} : DemoLogin(s, Absent, k)
    \/ Logout(s)
    \/ \E title \in {<<"N">>, <<" ">>}, fileError \in BOOLEAN : Upload(s, title, fileError)
    \/ \E t \in {"t1", "t_n1", "t_missing"} :
         Approve(s, t) \/ Reject(s, t) \/ DeleteTrack(s, t)
    \/ \E pl \in {"p1", "p_missing"} : DeletePlaylist(s, pl)

SpecModeration == Init /\ [][NextModeration]_vars

(* the status, as the program reads it, of the track with this id *)
StatusOfId(id) ==
  StatusOf(TRACKS[CHOOSE i \in TrackIndexes : TRACKS[i].id = id])

StatusOfIdAfter(id) ==
  StatusOf(TRACKS'[CHOOSE j \in 1..Len(TRACKS') : TRACKS'[j].id = id])

TrackIdsAfter == {TRACKS'[j].id : j \in 1..Len(TRACKS')}

(* the track records as the program reads them, old format filled in *)
TracksRead == [i \in TrackIndexes |-> [TRACKS[i] EXCEPT !.status = StatusOf(TRACKS[i])]]

TracksReadAfter ==
  [j \in 1..Len(TRACKS') |-> [TRACKS'[j] EXCEPT !.status = StatusOf(TRACKS'[j])]]

(* C15: once a track is published or rejected, no operation other than *)
(* deleting it changes its status.                                     *)
C15_FinalStatusesStay ==
  [][\A id \in ExistingTrackIds \cap TrackIdsAfter :
       StatusOfId(id) \in {"published", "rejected"}
       => StatusOfIdAfter(id) = StatusOfId(id)]_vars

(* C16: no operation moves an existing track from published or rejected *)
(* back to pending; a track is pending only from its creation by upload *)
(* until its first approve or reject.                                   *)
C16_NeverBackToPending ==
  [][\A id \in TrackIdsAfter :
       StatusOfIdAfter(id) = "pending"
       => \/ (id \in ExistingTrackIds /\ StatusOfId(id) = "pending")
          \/ ( /\ id \notin ExistingTrackIds
               /\ last'.op = "upload" /\ last'.body = "ok" /\ last'.track = id )]_vars

(* a track that was uploaded, rejected and then approved *)
C16_Witness ==
  /\ last.op = "approve" /\ last.status = 302
  /\ \E i \in TrackIndexes :
       /\ TRACKS[i].id = last.track
       /\ TRACKS[i].submittedBy # None
       /\ TRACKS[i].status = "published"
       /\ TRACKS[i].rejectedAt /\ TRACKS[i].publishedAt

(* C17: an admin approve of an existing track sets its status to        *)
(* published and stamps publishedAt, an admin reject sets rejected and  *)
(* stamps rejectedAt; every other track and every playlist is unchanged; *)
(* for an id that does not exist the answer is 404 and the track        *)
(* collection is not changed.                                           *)
C17_ApproveRejectEffect ==
  [][\A s \in Sessions :
       ( /\ last'.op \in {"approve", "reject"} /\ last'.sid = s
         /\ CallerOf(s).role = "admin" )
       => IF last'.track \in ExistingTrackIds
          THEN /\ Len(TRACKS') = Len(TRACKS)
               /\ \A i \in TrackIndexes :
                    IF TRACKS[i].id = last'.track
                    THEN /\ TRACKS'[i].id = TRACKS[i].id
                         /\ last'.op = "approve" =>
                              (TRACKS'[i].status = "published" /\ TRACKS'[i].publishedAt)
                         /\ last'.op = "reject" =>
                              (TRACKS'[i].status = "rejected" /\ TRACKS'[i].rejectedAt)
                    ELSE TracksReadAfter[i] = TracksRead[i]
               /\ PLAYLISTS' = PLAYLISTS
          ELSE /\ last'.status = 404
               /\ TRACKS' = TRACKS
               /\ PLAYLISTS' = PLAYLISTS]_vars

(* an uploaded track was approved while the seeded tracks are all there *)
C17_Witness ==
  /\ last.op = "approve" /\ last.status = 302
  /\ Len(TRACKS) = 3
  /\ \E i \in TrackIndexes :
       /\ TRACKS[i].id = last.track
       /\ TRACKS[i].submittedBy # None
       /\ TRACKS[i].status = "published" /\ TRACKS[i].publishedAt

(* positions i < j of `after` come from positions p < q of `before` *)
KeepsOrder(before, after) ==
  \A i, j \in 1..Len(after) :
    i < j => \E p, q \in 1..Len(before) :
               p < q /\ before[p] = after[i] /\ before[q] = after[j]

(* C18: after an admin deletes track t, no track with id t remains and no *)
(* playlist's trackIds contains t; every other track is kept and the      *)
(* remaining ids of every playlist keep their relative order.             *)
C18_DeleteCascades ==
  [][\A s \in Sessions :
       ( /\ last'.op = "deleteTrack" /\ last'.sid = s
         /\ CallerOf(s).role = "admin" )
       => LET t == last'.track
          IN /\ t \notin TrackIdsAfter
             /\ TrackIdsAfter = ExistingTrackIds \ {t}
             /\ \A i \in TrackIndexes :
                  TRACKS[i].id # t => \E j \in 1..Len(TRACKS') : TracksReadAfter[j] = TracksRead[i]
             /\ KeepsOrder([i \in TrackIndexes |-> TRACKS[i].id],
                           [j \in 1..Len(TRACKS') |-> TRACKS'[j].id])
             /\ Len(PLAYLISTS') = Len(PLAYLISTS)
             /\ \A k \in 1..Len(PLAYLISTS) :
                  /\ PLAYLISTS'[k].id = PLAYLISTS[k].id
                  /\ t \notin Range(PLAYLISTS'[k].trackIds)
                  /\ Range(PLAYLISTS'[k].trackIds) = Range(PLAYLISTS[k].trackIds) \ {t}
                  /\ Len(PLAYLISTS'[k].trackIds) =
                       Cardinality({p \in 1..Len(PLAYLISTS[k].trackIds) :
                                      PLAYLISTS[k].trackIds[p] # t})
                  /\ KeepsOrder(PLAYLISTS[k].trackIds, PLAYLISTS'[k].trackIds)]_vars

(* the first track of a playlist was deleted and the playlist keeps the *)
(* other one                                                            *)
C18_Witness ==
  /\ last.op = "deleteTrack" /\ last.status = 302 /\ last.track = "t1"
  /\ "t1" \notin ExistingTrackIds /\ "t2" \in ExistingTrackIds
  /\ \E k \in 1..Len(PLAYLISTS) : PLAYLISTS[k].trackIds = <<"t2">>

(* C19: approve, reject, track delete and playlist delete take effect    *)
(* only for a current user of role admin, upload only for role artist:   *)
(* an unauthenticated request is redirected to the login page, any other *)
(* role gets 403, and tracks and playlists are unchanged.                *)
C19_RoleGates ==
  [][\A s \in Sessions :
       LET needed == IF last'.op = "upload" THEN "artist" ELSE "admin"
       IN ( /\ last'.op \in {"approve", "reject", "deleteTrack", "deletePlaylist", "upload"}
            /\ last'.sid = s
            /\ CallerOf(s).role # needed )
          => /\ TRACKS' = TRACKS /\ PLAYLISTS' = PLAYLISTS
             /\ IF CallerOf(s).role = "anonymous"
                THEN last'.status = 302 /\ last'.redirect = LoginPath
                ELSE last'.status = 403]_vars

(* the artist who owns a pending track was refused its approval *)
C19_Witness ==
  /\ last.op = "approve" /\ last.status = 403
  /\ CallerOf(last.sid).role = "artist"
  /\ \E i \in TrackIndexes :
       /\ TRACKS[i].id = last.track
       /\ TRACKS[i].status = "pending"
       /\ TRACKS[i].artistId = CallerOf(last.sid).artistId

----------------------------------------------------------------------------
(* Registration forms, good and bad *)

OtherSecret == <<"s","e","c","r","e","t","2">>

RegisterEmails == {Absent, ShortEmail, NoAtEmail, BobEmailTyped, UserEmailTyped}

(* password and its confirmation *)
RegisterPasswords ==
  {<<Absent, Absent>>, <<ShortPassword, ShortPassword>>, <<Secret1, OtherSecret>>,
   <<Secret1, Secret1>>}

(* a Google account with Bob's address *)
RegisterProfiles == {Profile(Pid("number", "7"), BobEmail, Absent, Absent)}

NextRegister ==
  \E s \in {"s1"} :
    \/ \E e \in RegisterEmails, pw \in RegisterPasswords :
         Register(s, Absent, e, Absent, pw[1], pw[2], "salt_n")
    \/ OAuthStart(s, "google", Absent, "k1")
    \/ CallbackBegin(s, "google", "k1", TRUE)
    \/ CallbackToken(s, TRUE)
    \/ \E me \in RegisterProfiles : CallbackProfile(s, TRUE, me)
    \/ Logout(s)
    \/ GuestLike(s, "t1")

SpecRegister == Init /\ [][NextRegister]_vars

Malformed(email) == email = << >> \/ "@" \notin Range(email) \/ Len(email) < 5

EmailTaken(email) ==
  \E i \in UserIndexes : USERS[i].email # << >> /\ normalizeEmail(USERS[i].email) = email

(* C20: a registration that fails validation (malformed email, password  *)
(* shorter than 6 characters, confirmation mismatch) or whose normalized *)
(* email belongs to an account of any provider creates no user record    *)
(* and no like-set entry, does not authenticate the session and does not *)
(* merge guest likes.                                                    *)
C20_FailedRegistrationChangesNothing ==
  [][\A s \in Sessions, e \in RegisterEmails, pw \in RegisterPasswords :
       ( /\ Register(s, Absent, e, Absent, pw[1], pw[2], "salt_n")
         /\ \/ Malformed(normalizeEmail(e))
            \/ Len(pw[1]) < 6
            \/ pw[1] # pw[2]
            \/ EmailTaken(normalizeEmail(e)) )
       => /\ USERS' = USERS
          /\ USER_LIKES' = USER_LIKES
          /\ session' = session]_vars

(* a guest holding a like was refused an address that a Google account *)
(* already has                                                         *)
C20_Witness ==
  /\ last.op = "register" /\ last.body = "email exists"
  /\ session[last.sid].userId = None
  /\ session[last.sid].guestLikes # << >>
  /\ \A i \in UserIndexes : USERS[i].email = BobEmail => USERS[i].provider = "google"
  /\ \E i \in UserIndexes : USERS[i].email = BobEmail

(* C21: a successful local registration adds exactly one user record    *)
(* with provider 'local', role 'user' and the normalized email, gives it *)
(* a like-set entry, authenticates the session as the new user and       *)
(* merges the session's guest likes into that user's set.                *)
C21_RegistrationCreatesUser ==
  [][\A s \in Sessions, e \in RegisterEmails, pw \in RegisterPasswords :
       ( /\ Register(s, Absent, e, Absent, pw[1], pw[2], "salt_n")
         /\ ~Malformed(ToLowerCase(Trim(e)))
         /\ Len(pw[1]) >= 6 /\ pw[1] = pw[2]
         /\ ~EmailTaken(ToLowerCase(Trim(e))) )
       => /\ Len(USERS') = Len(USERS) + 1
          /\ \A i \in UserIndexes : USERS'[i] = USERS[i]
          /\ LET new == USERS'[Len(USERS')]
             IN /\ new.id \notin {USERS[i].id : i \in UserIndexes}
                /\ new.provider = "local" /\ new.role = "user"
                /\ new.email = ToLowerCase(Trim(e))
                /\ DOMAIN USER_LIKES' = DOMAIN USER_LIKES \cup {new.id}
                /\ \A u \in DOMAIN USER_LIKES : USER_LIKES'[u] = USER_LIKES[u]
                /\ session'[s].userId = new.id
                /\ Range(USER_LIKES'[new.id]) = Range(session[s].guestLikes)
                /\ NoDuplicates(USER_LIKES'[new.id])
                /\ session'[s].guestLikes = << >>]_vars

(* Bob registered with a typed address while holding a guest like, which *)
(* is now in the new account's set                                       *)
C21_Witness ==
  /\ last.op = "register" /\ last.body = "ok" /\ last.before # << >>
  /\ \E i \in UserIndexes :
       /\ USERS[i].id = session[last.sid].userId
       /\ USERS[i].email = BobEmail /\ USERS[i].provider = "local"
       /\ USER_LIKES[USERS[i].id] = last.before


----------------------------------------------------------------------------
(* OAuth logins of one client under two provider ids, with the email of *)
(* an account, an email nobody holds, or none                           *)

GoogleName == <<"G">>

GooglePicture == <<"p">>

UpsertProfiles ==
  {Profile(id, email, Absent, Absent) :
     id \in {Pid("number", "7"), Pid("string", "8")},
     email \in {Absent, UserEmail, BobEmail}}

NextUpsert ==
  \E s \in {"s1"} :
    \/ OAuthStart(s, "google", Absent, "k1")
    \/ CallbackBegin(s, "google", "k1", TRUE)
    \/ \E ok \in BOOLEAN : CallbackToken(s, ok)
    \/ \E ok \in BOOLEAN, me \in UpsertProfiles : CallbackProfile(s, ok, me)
    \/ Logout(s)

SpecUpsert == Init /\ [][NextUpsert]_vars

----------------------------------------------------------------------------
(* Claims on the resolution of an OAuth profile to a user record *)

(* C22: upsertOauthUser resolves in strict order. (a) When some user is  *)
(* reachable by (provider, providerId), as primary identity or through    *)
(* oauthLinks, that user is returned, whoever holds the profile's email.  *)
(* (b) Otherwise, when the non-empty normalized email is the email of an  *)
(* existing user, that user is returned with oauthLinks[provider] set to  *)
(* the providerId and no user is created. (c) Otherwise exactly one user  *)
(* is created, with role 'user' and no like of its own, and returned.     *)
C22_ResolutionOrder ==
  [][\A s \in Sessions, me \in UpsertProfiles :
       CallbackProfile(s, TRUE, me) =>
         LET provider == inflight[s].provider
             pid == String(me.id)
             e == ToLowerCase(Trim(me.email))
             byId == {i \in UserIndexes : ReachableBy(USERS[i], provider, pid)}
             byEmail == {i \in UserIndexes :
                           e # Absent /\ ToLowerCase(Trim(USERS[i].email)) = e}
         IN IF byId # {}
            THEN /\ Len(USERS') = Len(USERS)
                 /\ \E i \in byId : /\ session'[s].userId = USERS[i].id
                                    /\ USERS'[i].id = USERS[i].id
            ELSE IF byEmail # {}
            THEN /\ Len(USERS') = Len(USERS)
                 /\ \E i \in byEmail : /\ session'[s].userId = USERS[i].id
                                       /\ USERS'[i].id = USERS[i].id
                                       /\ USERS'[i].oauthLinks[provider] = pid
            ELSE /\ Len(USERS') = Len(USERS) + 1
                 /\ \A i \in UserIndexes : USERS'[i] = USERS[i]
                 /\ LET new == USERS'[Len(USERS')]
                    IN /\ new.id \notin {USERS[i].id : i \in UserIndexes}
                       /\ new.role = "user"
                       /\ new.provider = provider /\ new.providerId = pid
                       /\ session'[s].userId = new.id
                       /\ new.id \notin DOMAIN USER_LIKES
                       /\ Range(USER_LIKES'[new.id]) = Range(session[s].guestLikes)]_vars

(* a login by a linked identity whose profile carries the email of another *)
(* account: the linked account is returned and now shows that email        *)
C22_Witness ==
  /\ last.op = "oauthDone" /\ last.body = "direct"
  /\ \E i, j \in UserIndexes :
       /\ i # j
       /\ USERS[i].id = session[last.sid].userId
       /\ USERS[i].oauthLinks["google"] = "7"
       /\ USERS[i].provider = "local"
       /\ USERS[j].email = USERS[i].email


----------------------------------------------------------------------------
(* OAuth logins of one client under one provider id, with profiles that *)
(* carry, or lack, an email, a name and a picture                       *)

RefreshProfiles ==
  {Profile(Pid("number", "7"), email, name, avatar) :
     email \in {Absent, UserEmail, AdminEmail},
     name \in {Absent, GoogleName},
     avatar \in {Absent, GooglePicture}}

NextRefresh ==
  \E s \in {"s1"} :
    \/ OAuthStart(s, "google", Absent, "k1")
    \/ CallbackBegin(s, "google", "k1", TRUE)
    \/ \E ok \in BOOLEAN : CallbackToken(s, ok)
    \/ \E ok \in BOOLEAN, me \in RefreshProfiles : CallbackProfile(s, ok, me)
    \/ Logout(s)

SpecRefresh == Init /\ [][NextRefresh]_vars

(* the record the callback resolved to, before and after the step *)
ResolvedIndex(s) ==
  CHOOSE i \in UserIndexes : USERS[i].id = session'[s].userId

ProfileFields == {"email", "displayName", "avatar"}

(* C23, as the code has it: on the email-linking path each of email,     *)
(* displayName and avatar of the matched user keeps its value when it is *)
(* non-empty and takes the profile's value when it is empty; on the      *)
(* direct-match path each takes the profile's value when that value is   *)
(* non-empty, whatever the record held, and keeps its value when the     *)
(* profile's value is empty.                                             *)
C23_ProfileRefresh ==
  [][\A s \in Sessions, me \in RefreshProfiles :
       (CallbackProfile(s, TRUE, me) /\ last'.body \in {"direct", "link"}) =>
         LET profile == NormalizeProfile(inflight[s].provider, me)
             i == ResolvedIndex(s)
         IN \A f \in ProfileFields :
              USERS'[i][f] =
                IF last'.body = "link"
                THEN (IF USERS[i][f] # Absent THEN USERS[i][f] ELSE profile[f])
                ELSE (IF profile[f] # Absent THEN profile[f] ELSE USERS[i][f])]_vars

(* a direct match replaced the name of a seeded account and gave it a picture *)
C23_Witness ==
  /\ last.op = "oauthDone" /\ last.body = "direct"
  /\ \E i \in UserIndexes :
       /\ USERS[i].id = session[last.sid].userId
       /\ USERS[i].id = "u_user"
       /\ USERS[i].displayName = GoogleName
       /\ USERS[i].avatar = GooglePicture

(* C23, as stated: on the direct-match path email, displayName and avatar *)
(* always end as the values of the profile.                               *)
C23_DirectAlwaysOverwrites ==
  [][\A s \in Sessions, me \in RefreshProfiles :
       (CallbackProfile(s, TRUE, me) /\ last'.body = "direct") =>
         LET profile == NormalizeProfile(inflight[s].provider, me)
             i == ResolvedIndex(s)
         IN \A f \in ProfileFields : USERS'[i][f] = profile[f]]_vars


----------------------------------------------------------------------------
(* Every way into an account, and likes, in one session *)

RoleProfiles ==
  {Profile(Pid("number", "7"), email, Absent, Absent) : email \in {Absent, AdminEmail}}

NextRoles ==
  \E s \in {"s1"} :
    \/ Register(s, Absent, BobEmailTyped, Absent, Secret1, Secret1, "salt_n")
    \/ Login(s, Absent, ArtistEmail, ArtistPassword)
    \/ DemoLogin(s, Absent, "user")
    \/ OAuthStart(s, "google", Absent, "k1")
    \/ CallbackBegin(s, "google", "k1", TRUE)
    \/ CallbackToken(s, TRUE)
    \/ \E me \in RoleProfiles : CallbackProfile(s, TRUE, me)
    \/ Logout(s)
    \/ Like(s, "t1")

SpecRoles == Init /\ [][NextRoles]_vars

(* C24: no step changes the id or the role of an existing user record,   *)
(* be it an OAuth login on the direct-match or the email-link path, a     *)
(* local login, a demo login, a registration, a like toggle or a merge of *)
(* guest likes; no record is removed; and every record a step adds, by    *)
(* registration or by OAuth, has role 'user'.                             *)
C24_IdAndRoleFixed ==
  [][/\ Len(USERS') >= Len(USERS)
     /\ \A i \in UserIndexes : /\ USERS'[i].id = USERS[i].id
                               /\ USERS'[i].role = USERS[i].role
     /\ \A i \in (Len(USERS) + 1)..Len(USERS') : USERS'[i].role = "user"]_vars

(* the admin account has been linked to a Google identity by email, with a *)
(* guest like merged into it, beside an account created in this run        *)
C24_Witness ==
  /\ last.op = "oauthDone" /\ last.body = "link" /\ last.before # << >>
  /\ Len(USERS) > Len(SeedUsers)
  /\ USERS[Len(USERS)].role = "user"
  /\ \E i \in UserIndexes :
       /\ USERS[i].id = "u_admin" /\ USERS[i].role = "admin"
       /\ USERS[i].oauthLinks["google"] = "7"
       /\ session[last.sid].userId = "u_admin"


----------------------------------------------------------------------------
(* Local logins against accounts with, and without, a usable password hash *)

(* a stored value without ':' *)
MalformedHash == <<"plain">>

(* data/users.json: the seeded accounts, the artist's passwordHash as *)
(* seeded, missing, or malformed                                      *)
LoginUsers ==
  {[i \in 1..Len(SeedUsers) |->
      IF SeedUsers[i].id = "u_artist"
      THEN [SeedUsers[i] EXCEPT !.passwordHash = h] ELSE SeedUsers[i]] :
     h \in {hashPassword(ArtistPassword, "salt_b"), Absent, MalformedHash}}

InitLogin ==
  /\ USERS \in LoginUsers
  /\ USER_LIKES = SeedLikes
  /\ TRACKS = SeedTracks
  /\ PLAYLISTS = SeedPlaylists
  /\ session = [s \in Sessions |-> NewSession]
  /\ inflight = [s \in Sessions |-> Idle]
  /\ last = Resp("init", None, 0)
  /\ usedStates = {}

LoginEmails == {UserEmailTyped, ArtistEmail, BobEmail}

LoginPasswords == {Absent, UserPassword, ArtistPassword}

(* a Google account with Bob's address *)
LoginProfiles == {Profile(Pid("number", "7"), BobEmail, Absent, Absent)}

NextLogin ==
  \E s \in {"s1"} :
    \/ \E e \in LoginEmails, pw \in LoginPasswords : Login(s, Absent, e, pw)
    \/ OAuthStart(s, "google", Absent, "k1")
    \/ CallbackBegin(s, "google", "k1", TRUE)
    \/ CallbackToken(s, TRUE)
    \/ \E me \in LoginProfiles : CallbackProfile(s, TRUE, me)
    \/ Logout(s)
    \/ GuestLike(s, "t1")

SpecLogin == InitLogin /\ [][NextLogin]_vars

(* C25: POST /login makes the session a user's only when that user has   *)
(* provider 'local', a normalized email equal to the submitted one and a  *)
(* stored salt:hash that verifies the password. When no such user exists, *)
(* which includes a matching account whose hash is absent or malformed    *)
(* and an account created through OAuth, the login fails: the session,    *)
(* its userId and guest likes included, and the persisted likes stay as   *)
(* they were.                                                             *)
C25_LoginOnlyLocal ==
  [][\A s \in Sessions, e \in LoginEmails, pw \in LoginPasswords :
       Login(s, Absent, e, pw) =>
         LET Verifies(u) ==
               /\ u.provider = "local"
               /\ ToLowerCase(Trim(u.email)) = ToLowerCase(Trim(e))
               /\ u.passwordHash # Absent
               /\ Len(u.passwordHash) = 2
               /\ u.passwordHash[2] = scrypt(pw, u.passwordHash[1])
             failed == last'.body = "bad credentials"
         IN /\ ~failed => \E i \in UserIndexes : /\ Verifies(USERS[i])
                                                 /\ session'[s].userId = USERS[i].id
            /\ (~\E i \in UserIndexes : Verifies(USERS[i])) => failed
            /\ failed => UNCHANGED <<session, USER_LIKES, USERS>>]_vars

(* a login has failed in a session held by an account created through *)
(* OAuth, while the artist's stored hash is missing or malformed      *)
C25_Witness ==
  /\ last.op = "login" /\ last.body = "bad credentials"
  /\ \E i, j \in UserIndexes :
       /\ USERS[i].id = session[last.sid].userId
       /\ USERS[i].provider = "google" /\ USERS[i].passwordHash = Absent
       /\ USERS[i].email = BobEmail
       /\ USERS[j].id = "u_artist"
       /\ USERS[j].passwordHash \in {Absent, MalformedHash}


----------------------------------------------------------------------------
(* Uploads by an artist account with, and without, an artistId *)

InitUpload ==
  /\ USERS \in VisibilityUsers
  /\ USER_LIKES = SeedLikes
  /\ TRACKS = SeedTracks
  /\ PLAYLISTS = SeedPlaylists
  /\ session = [s \in Sessions |-> NewSession]
  /\ inflight = [s \in Sessions |-> Idle]
  /\ last = Resp("init", None, 0)
  /\ usedStates = {}

UploadTitles == {<<"N">>, <<" ">>, Absent}

NextUpload ==
  \E s \in {"s1"} :
    \/ \E k \in {"user", "artist", "admin"} : DemoLogin(s, Absent, k)
    \/ Logout(s)
    \/ \E title \in UploadTitles, fileError \in BOOLEAN : Upload(s, title, fileError)
    \/ \E t \in {"t1", "t_n1"} : Approve(s, t) \/ Reject(s, t)

SpecUpload == InitUpload /\ [][NextUpload]_vars

(* C26: a successful upload, which only an account of role 'artist' with *)
(* an artistId makes, adds exactly one track, under a new id, with status *)
(* pending, plays 0, likes 0, the uploader's artistId and the uploader's  *)
(* id as submittedBy, and leaves every existing track in place with the   *)
(* status it had; an upload with an empty title, or by an artist account  *)
(* without artistId, adds no track.                                       *)
C26_UploadAddsPendingTrack ==
  [][\A s \in Sessions, title \in UploadTitles, fileError \in BOOLEAN :
       Upload(s, title, fileError) =>
         LET uploaders == {i \in UserIndexes : USERS[i].id = session[s].userId}
             added == TrackIdsAfter \ ExistingTrackIds
         IN /\ last'.body = "ok" =>
                 /\ Len(TRACKS') = Len(TRACKS) + 1
                 /\ Cardinality(added) = 1
                 /\ ExistingTrackIds \subseteq TrackIdsAfter
                 /\ \A id \in ExistingTrackIds : StatusOfIdAfter(id) = StatusOfId(id)
                 /\ \E i \in uploaders, j \in 1..Len(TRACKS') :
                      /\ USERS[i].role = "artist" /\ USERS[i].artistId # None
                      /\ TRACKS'[j].id \in added
                      /\ TRACKS'[j].status = "pending"
                      /\ TRACKS'[j].plays = 0 /\ TRACKS'[j].likes = 0
                      /\ TRACKS'[j].artistId = USERS[i].artistId
                      /\ TRACKS'[j].submittedBy = USERS[i].id
            /\ ( \/ Trim(title) = << >>
                 \/ \E i \in uploaders : USERS[i].role = "artist" /\ USERS[i].artistId = None )
               => /\ last'.body # "ok"
                  /\ Len(TRACKS') = Len(TRACKS)
                  /\ TrackIdsAfter = ExistingTrackIds
            /\ ( /\ Trim(title) # << >> /\ ~fileError
                 /\ \E i \in uploaders : USERS[i].role = "artist" /\ USERS[i].artistId # None )
               => last'.body = "ok"]_vars

(* the artist's upload stands first in the collection, pending, beside the *)
(* seeded tracks                                                           *)
C26_Witness ==
  /\ last.op = "upload" /\ last.body = "ok"
  /\ Len(TRACKS) = Len(SeedTracks) + 1
  /\ TRACKS[1].id = last.track
  /\ TRACKS[1].status = "pending"
  /\ TRACKS[1].submittedBy = "u_artist" /\ TRACKS[1].artistId = "a1"
  /\ session[last.sid].userId = "u_artist"


----------------------------------------------------------------------------
(* Two clients at once. Every handler of a write request runs from its    *)
(* read to its write without yielding (readFileSync, writeFileSync, no    *)
(* await), so the one server process serves requests that arrive together *)
(* one after the other, in either order.                                  *)

NextRace ==
  \E s \in Sessions :
    \/ \E k \in {"user", "admin"} : StaffDemoLogin(s, k)
    \/ \E t \in {"t1", "t2"} : UserLike(s, "u_user", t)
    \/ Approve(s, "t2")
    \/ DeleteTrack(s, "t2")

SpecRace == Init /\ [][NextRace]_vars

(* this step serves a request of another client than the step before *)
BackToBack(op1, op2) ==
  /\ last.op = op1 /\ last'.op = op2
  /\ last.sid # None /\ last'.sid # last.sid

SameUser == session[last.sid].userId = session[last'.sid].userId

----------------------------------------------------------------------------
(* Two clients, each with a session of its own *)

(* GET /auth/<provider>: crypto.randomBytes(16) gives a token that no *)
(* session holds                                                      *)
FreshOAuthStart(s, provider, nextIn, state) ==
  /\ \A x \in Sessions, p \in Providers : session[x].oauthStates[p] # state
  /\ OAuthStart(s, provider, nextIn, state)

NextSessions ==
  \E s \in Sessions :
    \/ GuestLike(s, "t1")
    \/ \E k \in StateTokens : FreshOAuthStart(s, "google", LibraryPath, k)
    \/ \E k \in StateTokens, c \in BOOLEAN : CallbackBegin(s, "google", k, c)
    \/ CallbackToken(s, FALSE)
    \/ Login(s, Absent, UserEmailTyped, UserPassword)
    \/ Logout(s)

SpecSessions == Init /\ [][NextSessions]_vars

(* C28: a step taken for one session (a guest's like toggle, an OAuth     *)
(* start, a callback, a login, a logout) leaves the guestLikes,           *)
(* oauthStates, oauthNext and userId of every other session as they were, *)
(* and a callback that arrives in one session with a state recorded in    *)
(* another session is answered 400 Bad state.                             *)
C28_SessionsAreIsolated ==
  [][/\ \A s2 \in Sessions :
          last'.sid # s2 =>
            /\ session'[s2].guestLikes = session[s2].guestLikes
            /\ session'[s2].oauthStates = session[s2].oauthStates
            /\ session'[s2].oauthNext = session[s2].oauthNext
            /\ session'[s2].userId = session[s2].userId
     /\ \A s1, s2 \in Sessions, p \in Providers :
          ( /\ s1 # s2
            /\ last'.op = "oauthCallback" /\ last'.sid = s2 /\ last'.provider = p
            /\ last'.stateIn # None
            /\ last'.stateIn = session[s1].oauthStates[p] )
          => /\ last'.status = 400 /\ last'.body = "Bad state"
             /\ session' = session /\ inflight' = inflight]_vars

(* a callback has been refused in a session that holds a state of its own, *)
(* a guest like and a next, for presenting the state of the other session, *)
(* which is logged in                                                      *)
C28_Witness ==
  \E s1, s2 \in Sessions :
    /\ s1 # s2
    /\ last.op = "oauthCallback" /\ last.sid = s2 /\ last.body = "Bad state"
    /\ last.stateIn # None
    /\ last.stateIn = session[s1].oauthStates["google"]
    /\ session[s2].oauthStates["google"] \notin {None, last.stateIn}
    /\ session[s2].guestLikes # << >>
    /\ session[s1].userId # None


----------------------------------------------------------------------------
(* What a client is told about itself *)

NextMe ==
  \E s \in {"s1"} :
    \/ \E t \in {"t1", "t2"} : Like(s, t)
    \/ Login(s, Absent, UserEmailTyped, UserPassword)
    \/ DemoLogin(s, Absent, "admin")
    \/ Logout(s)
    \/ Me(s)

SpecMe == Init /\ [][NextMe]_vars

(* the like array the code should take for a request of session s *)
EffectiveLikes(s) ==
  IF session[s].userId # None /\ \E i \in UserIndexes : USERS[i].id = session[s].userId
  THEN USER_LIKES[session[s].userId]
  ELSE session[s].guestLikes

(* C29: the effective like set of a request is the persisted set of the  *)
(* session's user when the session is authenticated as an existing user,  *)
(* and the session's guest set, empty when the guest never liked a track, *)
(* otherwise. GET /api/me reports exactly that set and the user's id,     *)
(* null for a guest, and changes nothing; a like request starts from it.  *)
C29_EffectiveLikes ==
  [][\A s \in Sessions :
       /\ Me(s) =>
            /\ last'.likes = EffectiveLikes(s)
            /\ last'.user = session[s].userId
            /\ session[s].userId = None => last'.likes = session[s].guestLikes
            /\ UNCHANGED <<USERS, USER_LIKES, TRACKS, PLAYLISTS, session>>
       /\ (last'.op = "like" /\ last'.sid = s) => last'.before = EffectiveLikes(s)]_vars

(* GET /api/me has told a logged-in client its two persisted likes *)
C29_Witness ==
  /\ last.op = "me" /\ last.user = "u_user"
  /\ Len(last.likes) = 2
  /\ last.likes = USER_LIKES["u_user"]
  /\ session[last.sid].guestLikes = << >>


----------------------------------------------------------------------------
(* Playlists under uploads, moderation, likes and deletes *)

(* data/playlists.json with a second playlist that lists a track twice *)
TwoPlaylists ==
  SeedPlaylists \o <<[id |-> "p2", trackIds |-> <<"t2", "t1", "t2">>]>>

InitPlaylists ==
  /\ USERS = SeedUsers
  /\ USER_LIKES = SeedLikes
  /\ TRACKS = SeedTracks
  /\ PLAYLISTS = TwoPlaylists
  /\ session = [s \in Sessions |-> NewSession]
  /\ inflight = [s \in Sessions |-> Idle]
  /\ last = Resp("init", None, 0)
  /\ usedStates = {}

PlaylistIds == {"p1", "p2", "p_missing"}

NextPlaylists ==
  \E s \in {"s1"} :
    \/ \E k \in {"artist", "admin"} : DemoLogin(s, Absent, k)
    \/ Logout(s)
    \/ Upload(s, <<"N">>, FALSE)
    \/ \E t \in {"t1", "t_n1"} : Approve(s, t) \/ Reject(s, t)
    \/ \E t \in {"t1", "t_missing"} : DeleteTrack(s, t)
    \/ \E pl \in PlaylistIds : DeletePlaylist(s, pl)
    \/ Like(s, "t1")

SpecPlaylists == InitPlaylists /\ [][NextPlaylists]_vars

(* C30: upload, approve, reject and like toggles, like logins and logout, *)
(* leave the playlist collection as it is, also when a track a playlist    *)
(* lists becomes rejected; a track delete by an admin keeps every playlist *)
(* and removes from each trackIds the deleted id and nothing else; a       *)
(* playlist delete by an admin removes the playlist with that id, keeps    *)
(* the others as they are and removes no track.                            *)
C30_PlaylistsNotPruned ==
  [][/\ last'.op \notin {"deleteTrack", "deletePlaylist"} => PLAYLISTS' = PLAYLISTS
     /\ \A s \in Sessions, t \in TrackIds :
          (DeleteTrack(s, t) /\ last'.body = "ok") =>
            /\ Len(PLAYLISTS') = Len(PLAYLISTS)
            /\ \A k \in 1..Len(PLAYLISTS) :
                 /\ PLAYLISTS'[k].id = PLAYLISTS[k].id
                 /\ PLAYLISTS'[k].trackIds =
                      SelectSeq(PLAYLISTS[k].trackIds, LAMBDA x : x # t)
     /\ \A s \in Sessions, pl \in PlaylistIds :
          (DeletePlaylist(s, pl) /\ last'.body = "ok") =>
            /\ PLAYLISTS' = SelectSeq(PLAYLISTS, LAMBDA p : p.id # pl)
            /\ TRACKS' = TRACKS]_vars

(* a playlist still lists a track that an admin has just rejected, after *)
(* the other playlist was deleted                                        *)
C30_Witness ==
  /\ last.op = "reject" /\ last.body = "ok" /\ last.track = "t1"
  /\ StatusOfId("t1") = "rejected"
  /\ Len(PLAYLISTS) = 1
  /\ PLAYLISTS[1].id = "p2"
  /\ PLAYLISTS[1].trackIds = <<"t2", "t1", "t2">>


----------------------------------------------------------------------------
(* Playlist pages for every kind of requester *)

(* data/playlists.json with a third playlist that lists an id no track has *)
PagePlaylists ==
  TwoPlaylists \o <<[id |-> "p3", trackIds |-> <<"t_missing", "t1">>]>>

InitPage ==
  /\ USERS = SeedUsers
  /\ USER_LIKES = SeedLikes
  /\ TRACKS = SeedTracks
  /\ PLAYLISTS = PagePlaylists
  /\ session = [s \in Sessions |-> NewSession]
  /\ inflight = [s \in Sessions |-> Idle]
  /\ last = Resp("init", None, 0)
  /\ usedStates = {}

PageIds == {"p1", "p2", "p3", "p_missing"}

NextPage ==
  \E s \in {"s1"} :
    \/ \E k \in {"user", "artist", "admin"} : DemoLogin(s, Absent, k)
    \/ Logout(s)
    \/ \E t \in {"t1", "t2"} : Approve(s, t) \/ Reject(s, t)
    \/ DeleteTrack(s, "t2")
    \/ \E pl \in PageIds : ViewPlaylist(s, pl)

SpecPage == InitPage /\ [][NextPage]_vars

(* C31: the page of a playlist lists, in the playlist's order and once   *)
(* per occurrence, exactly the ids of its trackIds that identify an      *)
(* existing track visible to the requester; the ids of missing and of    *)
(* hidden tracks are left out and only counted as hidden; nothing is     *)
(* changed, and a playlist id nobody has is answered 404.                *)
C31_PlaylistPage ==
  [][\A s \in Sessions, pl \in PageIds :
       ViewPlaylist(s, pl) =>
         LET hits == {k \in 1..Len(PLAYLISTS) : PLAYLISTS[k].id = pl}
             Shown(id) == \E i \in TrackIndexes :
                            TRACKS[i].id = id /\ VisibleToCaller(s, TRACKS[i])
         IN /\ UNCHANGED <<TRACKS, PLAYLISTS, USERS, USER_LIKES, session>>
            /\ IF hits = {}
               THEN last'.status = 404
               ELSE \E k \in hits :
                      /\ last'.status = 200
                      /\ last'.items = SelectSeq(PLAYLISTS[k].trackIds, Shown)
                      /\ last'.hidden =
                           Len(PLAYLISTS[k].trackIds) - Len(last'.items)]_vars

(* a guest was shown none of the two entries of a playlist: one listed id *)
(* is of a rejected track, the other of no track                          *)
C31_Witness ==
  /\ last.op = "playlist" /\ last.status = 200
  /\ session[last.sid].userId = None
  /\ last.items = << >> /\ last.hidden = 2
  /\ StatusOfId("t1") = "rejected"
  /\ \E k \in 1..Len(PLAYLISTS) : PLAYLISTS[k].trackIds = <<"t_missing", "t1">>


----------------------------------------------------------------------------
(* OAuth callbacks whose provider answers with an error *)

ErrorProfiles == {Profile(Pid("number", "7"), UserEmail, GoogleName, GooglePicture)}

NextProviderError ==
  \E s \in {"s1"} :
    \/ GuestLike(s, "t1")
    \/ DemoLogin(s, Absent, "admin")
    \/ Logout(s)
    \/ \E p \in ConfiguredProviders : OAuthStart(s, p, LibraryPath, "k1")
    \/ \E p \in ConfiguredProviders : CallbackBegin(s, p, "k1", TRUE)
    \/ \E ok \in BOOLEAN : CallbackToken(s, ok)
    \/ \E ok \in BOOLEAN, me \in ErrorProfiles : CallbackProfile(s, ok, me)

SpecProviderError == Init /\ [][NextProviderError]_vars

(* C32: when the token exchange or the profile fetch of a callback fails, *)
(* after the state check has passed, the request ends with an error       *)
(* response and changes nothing: no user record is created or modified,   *)
(* the like sets, the session's userId, guest likes, states and recorded  *)
(* next stay as they were, and the request is over, with no retry.        *)
C32_ProviderErrorChangesNothing ==
  [][\A s \in Sessions :
       ( \/ CallbackToken(s, FALSE)
         \/ \E me \in ErrorProfiles : CallbackProfile(s, FALSE, me) )
       => /\ last'.status = 500
          /\ USERS' = USERS
          /\ USER_LIKES' = USER_LIKES
          /\ session' = session
          /\ inflight'[s].phase = "idle"]_vars

(* the profile fetch failed for a guest who holds a like and a recorded *)
(* next: both are still there and nobody is logged in                   *)
C32_Witness ==
  /\ last.op = "oauthDone" /\ last.status = 500
  /\ session[last.sid].userId = None
  /\ session[last.sid].guestLikes = <<"t1">>
  /\ session[last.sid].oauthNext[last.provider] = LibraryPath
  /\ Len(USERS) = Len(SeedUsers)
  /\ inflight[last.sid].phase = "idle"


----------------------------------------------------------------------------
(* Claims on the like sets as a whole *)

(* C33: in every reachable state a session that is authenticated as an   *)
(* existing user has an empty guest like array: registration, local      *)
(* login, demo login and the OAuth callback merge and clear it when they *)
(* set the userId, and a like toggle of an authenticated session writes  *)
(* to the user's set only.                                               *)
C33_AuthenticatedHasNoGuestLikes ==
  \A s \in Sessions :
    ( /\ session[s].userId # None
      /\ \E i \in UserIndexes : USERS[i].id = session[s].userId )
    => session[s].guestLikes = << >>

(* a logged-in client unliked the only track of its user's set: both like *)
(* arrays of the session are empty                                        *)
C33_Witness ==
  /\ last.op = "like" /\ last.status = 200 /\ ~last.liked /\ ~last.guest
  /\ last.before = <<"t1">>
  /\ session[last.sid].userId # None
  /\ USER_LIKES[session[last.sid].userId] = << >>
  /\ session[last.sid].guestLikes = << >>


(* C34: in every reachable state every track id in a user's persisted  *)
(* like array or in a session's guest like array is the id of a track  *)
(* of the collection; an admin's track delete leaves no like array     *)
(* holding the deleted id.                                             *)
C34_LikesReferToTracks ==
  /\ \A u \in DOMAIN USER_LIKES : Range(USER_LIKES[u]) \subseteq ExistingTrackIds
  /\ \A s \in Sessions : Range(session[s].guestLikes) \subseteq ExistingTrackIds


----------------------------------------------------------------------------
(* Two clients signing in with the same Google account at once. The       *)
(* callback yields at its two awaits only; what follows the second await, *)
(* upsertOauthUser included, runs without interruption. A fetch that was  *)
(* sent returns, so a callback in flight is resumed in time.              *)

(* the account gives no email, so only the identity can resolve it *)
TwinProfile == Profile(Pid("number", "7"), Absent, GoogleName, Absent)

(* the continuation of a callback after either of its awaits *)
TwinResume(s) == CallbackToken(s, TRUE) \/ CallbackProfile(s, TRUE, TwinProfile)

NextTwin ==
  \E s \in Sessions :
    \/ OAuthStart(s, "google", Absent, "k1")
    \/ CallbackBegin(s, "google", "k1", TRUE)
    \/ CallbackToken(s, TRUE)
    \/ CallbackProfile(s, TRUE, TwinProfile)

SpecTwin ==
  /\ Init
  /\ [][NextTwin]_vars
  /\ \A s \in Sessions : WF_vars(TwinResume(s))

(* the records reachable by the Google identity of the profile *)
TwinRecords == {i \in UserIndexes : ReachableBy(USERS[i], "google", "7")}

BothWaiting ==
  /\ \A s \in Sessions : inflight[s].phase = "profile"
  /\ TwinRecords = {}

BothSignedIn ==
  /\ Cardinality(TwinRecords) = 1
  /\ Len(USERS) = Len(SeedUsers) + 1
  /\ \A s \in Sessions : \E i \in TwinRecords : session[s].userId = USERS[i].id

(* C35: two callbacks that run concurrently for the same, so far unknown, *)
(* (provider, providerId) create exactly one user record between them and *)
(* both sessions end authenticated as that user: at no time is there more *)
(* than one record for the identity, and from the state in which both     *)
(* callbacks wait for the profile both sessions come to be that user's.   *)
C35_ConcurrentCallbacksOneUser ==
  /\ [](Cardinality(TwinRecords) <= 1 /\ Len(USERS) <= Len(SeedUsers) + 1)
  /\ BothWaiting ~> BothSignedIn

(* the callback of one client has created the account while the callback *)
(* of the other client, begun before, still waits for the profile        *)
C35_Witness ==
  /\ last.op = "oauthDone" /\ last.body = "create"
  /\ Cardinality(TwinRecords) = 1
  /\ \E s \in Sessions :
       /\ s # last.sid
       /\ inflight[s].phase = "profile"
       /\ session[s].userId = None


----------------------------------------------------------------------------
(* Moderation rights: every kind of requester asked about every kind of   *)
(* track                                                                  *)

(* canModerateTrack applied to the requester of s and the track of the data file *)
CanModerate(s, id) ==
  LET user == getCurrentUser(s)
      allTracks == readTracks
      track == FindTrack(allTracks, id)
  IN /\ track # 0
     /\ last' = [Resp("canModerate", s, 200) EXCEPT
                   !.track = id,
                   !.body = IF canModerateTrack(user, allTracks[track])
                            THEN "true" ELSE "false"]
     /\ UNCHANGED <<USERS, USER_LIKES, TRACKS, PLAYLISTS, session, inflight, usedStates>>

NextRights ==
  \E s \in Sessions, id \in {"t1"} : CanModerate(s, id) \/ ViewTrack(s, id)

SpecRights == InitVisibility /\ [][NextRights]_vars

(* the caller is an admin or the artist the track belongs to *)
MayModerate(s, t) ==
  \/ CallerOf(s).role = "admin"
  \/ (CallerOf(s).role = "artist" /\ CallerOf(s).artistId = t.artistId)

(* C36: canModerateTrack(requester, track) is true exactly when the       *)
(* requester is an admin or an artist whose artistId equals the track's;  *)
(* on every pending or rejected track it gives the result of              *)
(* isTrackVisibleToUser; an anonymous or user-role requester can moderate *)
(* nothing.                                                               *)
C36_ModerationRule ==
  /\ \A s \in Sessions, i \in TrackIndexes :
       /\ canModerateTrack(getCurrentUser(s), readTracks[i]) <=> MayModerate(s, TRACKS[i])
       /\ StatusOf(TRACKS[i]) \in {"pending", "rejected"}
          => ( canModerateTrack(getCurrentUser(s), readTracks[i])
               <=> isTrackVisibleToUser(readTracks[i], getCurrentUser(s)) )
       /\ CallerOf(s).role \in {"anonymous", "user"}
          => ~canModerateTrack(getCurrentUser(s), readTracks[i])
  /\ \A i \in TrackIndexes :
       (last.op = "canModerate" /\ last.track = TRACKS[i].id)
       => (last.body = "true" <=> MayModerate(last.sid, TRACKS[i]))

(* the artist was found to be the moderator of their own pending track, *)
(* which a page view shows them as well                                 *)
C36_Witness ==
  /\ last.op = "canModerate" /\ last.body = "true"
  /\ CallerOf(last.sid).role = "artist" /\ CallerOf(last.sid).artistId = "a1"
  /\ \E i \in TrackIndexes :
       /\ TRACKS[i].id = last.track
       /\ StatusOf(TRACKS[i]) = "pending"
       /\ TRACKS[i].artistId = "a1"
       /\ isTrackVisibleToUser(readTracks[i], getCurrentUser(last.sid))

====
